---- MODULE Spec2Model ----
(***************************************************************************)
(* Model of the wrdlHelper decision engine: the pattern simulator, the     *)
(* constraint filters, the entropy scorer, the candidate selector, the     *)
(* word repository and the solver configuration.                           *)
(*                                                                         *)
(* A word is a tuple of one-character strings.  A feedback pattern is a    *)
(* tuple of five LetterResult values; over the external interface it is a  *)
(* tuple of string tokens.  Entropy is kept in fixed point (micro-bits).   *)
(***************************************************************************)
EXTENDS Integers, Sequences, FiniteSets, TLC

VARIABLES
    answer_words,         \* WORD_MANAGER.answer_words
    guess_words,          \* WORD_MANAGER.guess_words
    optimal_first_guess,  \* WORD_MANAGER.optimal_first_guess ("None" or a word)
    config,               \* SOLVER_CONFIG
    history,              \* the caller's accumulated guess_results (FFI format)
    last                  \* the last completed call: its name, inputs and outputs

vars == <<answer_words, guess_words, optimal_first_guess, config, history, last>>

\* Option::None (a word is never empty).
None == <<>>

(***************************************************************************)
(* Data of the program                                                     *)
(***************************************************************************)

\* The three variants of enum LetterResult.
LetterResult == {"Gray", "Yellow", "Green"}

\* Word length the loops `for i in 0..5` are written for.
WordLen == 5

Positions == 1..WordLen

\* The hard-coded lexicon of WordManager::load_words.
HardcodedWords ==
  << <<"C","R","A","N","E">>, <<"S","L","A","T","E">>, <<"C","R","A","T","E">>,
     <<"P","L","A","T","E">>, <<"G","R","A","T","E">>, <<"T","R","A","C","E">>,
     <<"C","H","A","S","E">>, <<"C","L","O","T","H">>, <<"C","L","O","U","D">>,
     <<"S","L","O","T","H">>, <<"B","L","I","M","P">>, <<"W","O","R","L","D">>,
     <<"H","E","L","L","O">>, <<"F","L","U","T","E">>, <<"P","R","I","D","E">>,
     <<"S","H","I","N","E">>, <<"B","R","A","V","E">>, <<"Q","U","I","C","K">> >>

\* IntelligentSolver::get_killer_words.
get_killer_words ==
  << <<"S","L","A","T","E">>, <<"C","R","A","N","E">>, <<"T","R","A","C","E">>,
     <<"S","L","A","N","T">>, <<"C","R","A","T","E">>, <<"C","A","R","T","E">>,
     <<"L","E","A","S","T">>, <<"S","T","A","R","E">>, <<"T","A","R","E","S">>,
     <<"R","A","I","S","E">>, <<"A","R","I","S","E">>, <<"S","O","A","R","E">>,
     <<"A","D","I","E","U">>, <<"A","U","D","I","O">>, <<"R","O","A","T","E">>,
     <<"O","U","I","J","A">>, <<"A","U","R","E","I">>, <<"O","U","R","I","E">>,
     <<"P","S","Y","C","H">>, <<"G","L","Y","P","H">>, <<"V","O","M","I","T">>,
     <<"J","U","M","B","O">>, <<"Z","E","B","R","A">> >>

\* IntelligentSolver::get_top_strategic_words.
get_top_strategic_words ==
  << <<"S","L","A","T","E">>, <<"C","R","A","N","E">>, <<"T","R","A","C","E">>,
     <<"S","L","A","N","T">>, <<"C","R","A","T","E">>, <<"C","A","R","T","E">>,
     <<"L","E","A","S","T">>, <<"S","T","A","R","E">>, <<"T","A","R","E","S">>,
     <<"R","A","I","S","E">>, <<"A","R","I","S","E">>, <<"S","O","A","R","E">>,
     <<"A","D","I","E","U">>, <<"A","U","D","I","O">>, <<"R","O","A","T","E">>,
     <<"O","U","I","J","A">>, <<"A","U","R","E","I">>, <<"O","U","R","I","E">>,
     <<"A","L","I","E","N">>, <<"A","L","I","K","E">>, <<"A","L","I","V","E">>,
     <<"S","T","E","R","N">>, <<"S","T","O","N","E">>, <<"S","T","O","R","E">>,
     <<"S","T","O","R","Y">>, <<"S","T","O","R","K">>, <<"S","T","O","R","M">>,
     <<"S","T","O","U","T">>, <<"S","T","O","I","C">>, <<"S","T","O","M","P">>,
     <<"C","R","E","S","T">>, <<"C","R","I","S","P">>, <<"C","R","U","S","H">>,
     <<"C","R","U","M","B">>, <<"C","R","U","E","L">>, <<"C","R","U","D","E">>,
     <<"C","R","A","S","H">>, <<"C","R","A","M","P">>, <<"C","R","A","F","T">>,
     <<"P","L","A","T","E">>, <<"P","L","A","C","E">>, <<"P","L","A","N","T">>,
     <<"P","L","A","N","K">>, <<"P","L","A","I","D">>, <<"P","L","A","I","N">>,
     <<"G","R","A","T","E">>, <<"G","R","A","N","T">>, <<"G","R","A","S","P">>,
     <<"G","R","A","N","D">>, <<"G","R","A","C","E">>, <<"G","R","A","D","E">>,
     <<"B","L","A","D","E">>, <<"B","L","A","M","E">>, <<"B","L","A","N","K">>,
     <<"B","L","A","R","E">>, <<"B","L","A","S","T">>, <<"B","L","E","N","D">>,
     <<"C","H","A","S","E">>, <<"C","H","A","R","T">>, <<"C","H","A","R","M">>,
     <<"C","H","A","L","K">>, <<"C","H","A","I","N">>, <<"C","H","A","I","R">>,
     <<"F","L","A","M","E">>, <<"F","L","A","R","E">>, <<"F","L","A","S","H">>,
     <<"F","L","A","N","K">>, <<"F","L","A","S","K">>, <<"F","L","I","N","T">>,
     <<"P","R","I","D","E">>, <<"P","R","I","M","E">>, <<"P","R","I","N","T">>,
     <<"P","R","I","S","M">>, <<"P","R","I","C","K">>, <<"P","R","I","C","E">>,
     <<"S","H","A","D","E">>, <<"S","H","A","K","E">>, <<"S","H","A","M","E">>,
     <<"S","H","A","P","E">>, <<"S","H","A","R","E">>, <<"S","H","A","R","K">>,
     <<"T","H","A","N","K">>, <<"T","H","I","N","K">>, <<"T","H","I","C","K">>,
     <<"T","H","R","O","W">>, <<"T","H","R","E","E">>, <<"T","H","R","E","W">> >>

\* The probe list of WordManager::compute_optimal_first_guess.
optimal_first_guesses ==
  << <<"T","A","R","E","S">>, <<"S","L","A","T","E">>, <<"C","R","A","N","E">>,
     <<"C","R","A","T","E">>, <<"S","L","A","N","T">> >>

\* The initial value of SOLVER_CONFIG.
DefaultConfig ==
    [ reference_mode |-> FALSE,
      include_killer_words |-> FALSE,
      candidate_cap |-> 200,
      early_termination_enabled |-> TRUE,
      early_termination_threshold |-> 5000000,
      entropy_only_scoring |-> FALSE ]

(***************************************************************************)
(* Vec and slice helpers                                                   *)
(***************************************************************************)

\* slice.contains(x)
Contains(s, x) == \E i \in DOMAIN s : s[i] = x

\* iter().filter(|c| c == x).count()
CountOf(s, x) == Cardinality({i \in DOMAIN s : s[i] = x})

\* iter().position(|c| c == x): the first index holding x, or 0 for None
PositionOf(s, x) ==
    IF Contains(s, x) THEN CHOOSE i \in DOMAIN s : s[i] = x /\ \A j \in 1..(i-1) : s[j] # x
    ELSE 0

\* The set of elements of a Vec.
Range(s) == {s[i] : i \in DOMAIN s}

(***************************************************************************)
(* Pattern simulator                                                       *)
(***************************************************************************)

\* The second pass of the simulators: from position i on, a position that is
\* not Green and whose letter is still in the working copy of the target is
\* marked with `yellow` and the first such letter of the copy is consumed.
RECURSIVE SecondPass(_, _, _, _, _, _)
SecondPass(i, guess_chars, target_chars, result, gray, yellow) ==
    IF i > WordLen THEN result
    ELSE IF result[i] = gray /\ PositionOf(target_chars, guess_chars[i]) # 0
         THEN SecondPass(i + 1, guess_chars,
                         [target_chars EXCEPT ![PositionOf(target_chars, guess_chars[i])] = " "],
                         [result EXCEPT ![i] = yellow], gray, yellow)
         ELSE SecondPass(i + 1, guess_chars, target_chars, result, gray, yellow)

\* simulate_guess_pattern without its first pass: no position is marked Green
\* and no letter of the target is consumed before the second pass.
simulate_guess_pattern_no_first_pass(guess, target) ==
    SecondPass(1, guess, target, [i \in Positions |-> "X"], "X", "Y")

\* A simulator whose second pass still finds the letters of the target that
\* the first pass matched.
simulate_guess_pattern_green_kept(guess, target) ==
    SecondPass(1, guess, target,
               [i \in Positions |-> IF guess[i] = target[i] THEN "G" ELSE "X"], "X", "Y")

\* A simulator that marks every misplaced letter the target holds, however
\* often the guess repeats it.
simulate_guess_pattern_by_presence(guess, target) ==
    [i \in Positions |-> IF guess[i] = target[i] THEN "G"
                         ELSE IF Contains(target, guess[i]) THEN "Y" ELSE "X"]

\* IntelligentSolver::simulate_guess_pattern: the pattern as the characters of
\* the returned String.
simulate_guess_pattern(guess, target) ==
    LET first_result == [i \in Positions |-> IF guess[i] = target[i] THEN "G" ELSE "X"]
        first_target == [i \in Positions |-> IF guess[i] = target[i] THEN " " ELSE target[i]]
    IN  SecondPass(1, guess, first_target, first_result, "X", "Y")

\* WordleBenchmark::generate_feedback: a GuessResult.
generate_feedback(guess, target) ==
    LET first_result == [i \in Positions |-> IF guess[i] = target[i] THEN "Green" ELSE "Gray"]
        first_target == [i \in Positions |-> IF guess[i] = target[i] THEN " " ELSE target[i]]
    IN  [ word |-> guess,
          results |-> SecondPass(1, guess, first_target, first_result, "Gray", "Yellow") ]

(***************************************************************************)
(* Constraint filters                                                      *)
(***************************************************************************)

\* The letters of a guess that hold a Green or Yellow marker, and the number
\* of such positions per letter (the HashMap min_required / required_counts).
RequiredCount(guess_chars, results, ch) ==
    Cardinality({i \in Positions : results[i] \in {"Green", "Yellow"} /\ guess_chars[i] = ch})

\* word_matches_single_feedback, first definition of api/simple.rs.
word_matches_single_feedback_first(candidate, guess_result) ==
    LET guess_chars == guess_result.word
        results == guess_result.results
        min_required == {guess_chars[i] : i \in {j \in Positions : results[j] \in {"Green", "Yellow"}}}
        \* a cap is inserted only for a Gray letter that min_required holds
        total_occurrence_cap ==
            {guess_chars[i] : i \in {j \in Positions : results[j] = "Gray"
                                                    /\ guess_chars[j] \in min_required}}
    IN  /\ \A i \in Positions : results[i] = "Green" => candidate[i] = guess_chars[i]
        /\ \A i \in Positions : results[i] = "Yellow" => candidate[i] # guess_chars[i]
        /\ \A ch \in min_required :
              CountOf(candidate, ch) >= RequiredCount(guess_chars, results, ch)
        /\ \A ch \in total_occurrence_cap :
              CountOf(candidate, ch) <= RequiredCount(guess_chars, results, ch)

\* word_matches_single_feedback, second definition of api/simple.rs.
word_matches_single_feedback(candidate, guess_result) ==
    LET guess_chars == guess_result.word
        results == guess_result.results
    IN  /\ \A i \in Positions : results[i] = "Green" => candidate[i] = guess_chars[i]
        /\ \A i \in Positions : results[i] = "Yellow" =>
              /\ candidate[i] # guess_chars[i]
              /\ Contains(candidate, guess_chars[i])
        /\ \A i \in Positions : results[i] = "Gray" =>
              ~ (CountOf(candidate, guess_chars[i])
                   > RequiredCount(guess_chars, results, guess_chars[i]))

\* IntelligentSolver::word_matches_pattern.
word_matches_pattern(word, guess_result) ==
    LET guess_chars == guess_result.word
        results == guess_result.results
        letter_appears_elsewhere(i) ==
            \E j \in Positions : /\ i # j
                                 /\ results[j] \in {"Green", "Yellow"}
                                 /\ guess_chars[j] = guess_chars[i]
    IN  /\ \A i \in Positions : results[i] = "Green" => word[i] = guess_chars[i]
        /\ \A i \in Positions : results[i] = "Yellow" =>
              /\ word[i] # guess_chars[i]
              /\ Contains(word, guess_chars[i])
        /\ \A i \in Positions : results[i] = "Gray" =>
              ~ (~ letter_appears_elsewhere(i) /\ Contains(word, guess_chars[i]))

\* word_matches_all_feedback (second definition): the loop over the records,
\* returning false at the first record that rejects the candidate.
RECURSIVE MatchesFrom(_, _, _)
MatchesFrom(k, candidate, guess_results) ==
    IF k > Len(guess_results) THEN TRUE
    ELSE IF ~ word_matches_single_feedback(candidate, guess_results[k]) THEN FALSE
    ELSE MatchesFrom(k + 1, candidate, guess_results)

\* word_matches_all_feedback returning from the first iteration of its loop.
word_matches_all_feedback_first_record(candidate, guess_results) ==
    Len(guess_results) = 0 \/ word_matches_single_feedback(candidate, guess_results[1])

word_matches_all_feedback(candidate, guess_results) ==
    MatchesFrom(1, candidate, guess_results)

\* filter_words_with_feedback iterating from the second word on.
filter_words_with_feedback_skip_first(words, guess_results) ==
    IF Len(words) = 0 THEN words
    ELSE SelectSeq(Tail(words), LAMBDA w : word_matches_all_feedback(w, guess_results))

\* filter_words_with_feedback (second definition).
filter_words_with_feedback(words, guess_results) ==
    SelectSeq(words, LAMBDA w : word_matches_all_feedback(w, guess_results))

\* word_matches_all_feedback and filter_words_with_feedback, first definitions.
RECURSIVE MatchesFromFirst(_, _, _)
MatchesFromFirst(k, candidate, guess_results) ==
    IF k > Len(guess_results) THEN TRUE
    ELSE IF ~ word_matches_single_feedback_first(candidate, guess_results[k]) THEN FALSE
    ELSE MatchesFromFirst(k + 1, candidate, guess_results)

word_matches_all_feedback_first(candidate, guess_results) ==
    MatchesFromFirst(1, candidate, guess_results)

filter_words_with_feedback_first(words, guess_results) ==
    SelectSeq(words, LAMBDA w : word_matches_all_feedback_first(w, guess_results))

\* IntelligentSolver::filter_words: one pass over the list per record.
RECURSIVE FilterFrom(_, _, _)
FilterFrom(k, filtered, guess_results) ==
    IF k > Len(guess_results) THEN filtered
    ELSE FilterFrom(k + 1,
                    SelectSeq(filtered, LAMBDA w : word_matches_pattern(w, guess_results[k])),
                    guess_results)

filter_words(words, guess_results) == FilterFrom(1, words, guess_results)

\* The value a call returning a word leaves when it panics (an index out of
\* bounds).
Panic == <<"panic">>

\* The outcome of one step of word_matches_single_feedback (second definition)
\* for a guess word of any length: stage 1 is the Green loop, stage 2 the
\* Yellow loop, stage 3 the Gray loop, each at position i.  `guess_chars[i]`
\* and `candidate_chars[i]` panic when i is beyond the word.
SingleFeedbackStep(candidate, guess_result, stage, i) ==
    LET guess_chars == guess_result.word
        results == guess_result.results
        required_count ==
            Cardinality({j \in Positions : /\ results[j] \in {"Green", "Yellow"}
                                           /\ j <= Len(guess_chars)
                                           /\ guess_chars[j] = guess_chars[i]})
    IN  IF stage = 1 /\ results[i] = "Green"
        THEN IF i > Len(candidate) \/ i > Len(guess_chars) THEN "panic"
             ELSE IF candidate[i] # guess_chars[i] THEN "reject" ELSE "continue"
        ELSE IF stage = 2 /\ results[i] = "Yellow"
        THEN IF i > Len(guess_chars) \/ i > Len(candidate) THEN "panic"
             ELSE IF candidate[i] = guess_chars[i] THEN "reject"
             ELSE IF ~ Contains(candidate, guess_chars[i]) THEN "reject" ELSE "continue"
        ELSE IF stage = 3 /\ results[i] = "Gray"
        THEN IF i > Len(guess_chars) THEN "panic"
             ELSE IF CountOf(candidate, guess_chars[i]) > required_count THEN "reject"
             ELSE "continue"
        ELSE "continue"

\* word_matches_single_feedback (second definition) for a guess word of any
\* length: "accept", "reject", or "panic", decided by the first step, in the
\* order of the loops, that leaves the function.
word_matches_single_feedback_outcome(candidate, guess_result) ==
    LET step(n) == SingleFeedbackStep(candidate, guess_result,
                                      ((n - 1) \div WordLen) + 1, ((n - 1) % WordLen) + 1)
        leaving == {n \in 1..(3 * WordLen) : step(n) # "continue"}
    IN  IF leaving = {} THEN "accept"
        ELSE step(CHOOSE n \in leaving : \A m \in leaving : n <= m)

\* word_matches_all_feedback over records of any shape: the outcome of the
\* first record that does not accept, else "accept".
word_matches_all_feedback_outcome(candidate, guess_results) ==
    LET outcome(k) == word_matches_single_feedback_outcome(candidate, guess_results[k])
        leaving == {k \in DOMAIN guess_results : outcome(k) # "accept"}
    IN  IF leaving = {} THEN "accept"
        ELSE outcome(CHOOSE k \in leaving : \A m \in leaving : k <= m)

\* filter_words_with_feedback over records of any shape: whether the test of
\* some word panics, and else the words kept.
filter_words_with_feedback_outcome(words, guess_results) ==
    IF \E n \in DOMAIN words :
           word_matches_all_feedback_outcome(words[n], guess_results) = "panic"
    THEN [ panic |-> TRUE, words |-> <<>> ]
    ELSE [ panic |-> FALSE,
           words |-> SelectSeq(words,
               LAMBDA w : word_matches_all_feedback_outcome(w, guess_results) = "accept") ]

(***************************************************************************)
(* Entropy scorer (fixed point: 1 bit = 1000000)                           *)
(***************************************************************************)

\* log2(k) in micro-bits for k = 1..130: the value of ln(k) / LN_2.
Log2Micro ==
  << 0, 1000000, 1584963, 2000000, 2321928, 2584963, 2807355, 3000000, 3169925, 3321928,
     3459432, 3584963, 3700440, 3807355, 3906891, 4000000, 4087463, 4169925, 4247928, 4321928,
     4392317, 4459432, 4523562, 4584963, 4643856, 4700440, 4754888, 4807355, 4857981, 4906891,
     4954196, 5000000, 5044394, 5087463, 5129283, 5169925, 5209453, 5247928, 5285402, 5321928,
     5357552, 5392317, 5426265, 5459432, 5491853, 5523562, 5554589, 5584963, 5614710, 5643856,
     5672425, 5700440, 5727920, 5754888, 5781360, 5807355, 5832890, 5857981, 5882643, 5906891,
     5930737, 5954196, 5977280, 6000000, 6022368, 6044394, 6066089, 6087463, 6108524, 6129283,
     6149747, 6169925, 6189825, 6209453, 6228819, 6247928, 6266787, 6285402, 6303781, 6321928,
     6339850, 6357552, 6375039, 6392317, 6409391, 6426265, 6442943, 6459432, 6475733, 6491853,
     6507795, 6523562, 6539159, 6554589, 6569856, 6584963, 6599913, 6614710, 6629357, 6643856,
     6658211, 6672425, 6686501, 6700440, 6714246, 6727920, 6741467, 6754888, 6768184, 6781360,
     6794416, 6807355, 6820179, 6832890, 6845490, 6857981, 6870365, 6882643, 6894818, 6906891,
     6918863, 6930737, 6942515, 6954196, 6965784, 6977280, 6988685, 7000000, 7011227, 7022368 >>

\* The sum, over the remaining words lo..hi, of log2(total) - log2(size of the
\* word's pattern group): over all words it is total_words times the Shannon
\* entropy.  (The range is halved so that long lists do not nest deeply.)
RECURSIVE SumSurprisal(_, _, _)
SumSurprisal(lo, hi, patterns) ==
    IF lo > hi THEN 0
    ELSE IF lo = hi
    THEN Log2Micro[Len(patterns)] - Log2Micro[CountOf(patterns, patterns[lo])]
    ELSE SumSurprisal(lo, (lo + hi) \div 2, patterns)
             + SumSurprisal((lo + hi) \div 2 + 1, hi, patterns)

\* IntelligentSolver::calculate_entropy, in micro-bits.
calculate_entropy(candidate_word, remaining_words) ==
    IF Len(remaining_words) = 0 \/ Len(remaining_words) = 1 THEN 0
    ELSE LET patterns == [i \in 1..Len(remaining_words) |->
                             simulate_guess_pattern(candidate_word, remaining_words[i])]
         IN  SumSurprisal(1, Len(patterns), patterns) \div Len(remaining_words)

\* The f64 values of calculate_entropy, exactly: a value v with 0 <= v < 4 is
\* the pair <<hi, lo>> with v = (hi * F64Limb + lo) * 2^-55 and lo < F64Limb.
\* Every f64 that the function produces for up to eight remaining words is a
\* whole number of units 2^-55.
F64Limb == 2^30

\* `probability * (probability.ln() / LN_2)` negated, for probability =
\* count as f64 / total_words: TermF64[total_words][count], each operation
\* rounded to the nearest f64 as IEEE 754 and the library's ln do.
TermF64 ==
  <<
     << <<0, 0>> >>,
     << <<16777216, 0>>, <<0, 0>> >>,
     << <<17727505, 520048236>>, <<13085389, 682182532>>, <<0, 0>> >>,
     << <<16777216, 0>>, <<16777216, 0>>, <<10444760, 708939660>>, <<0, 0>> >>,
     << <<15582195, 723441616>>, <<17742618, 587889772>>, <<14837077, 160496204>>, <<8641691, 531534454>>, <<0, 0>> >>,
     << <<14456158, 81067146>>, <<17727505, 520048236>>, <<16777216, 0>>, <<13085389, 682182532>>, <<7354975, 75350224>>, <<0, 0>> >>,
     << <<13457028, 587804192>>, <<17327076, 562041620>>, <<17578578, 634604056>>, <<15480191, 970691558>>, <<11634443, 968867642>>, <<6396215, 502249666>>, <<0, 0>> >>,
     << <<12582912, 0>>, <<16777216, 0>>, <<17805292, 354469828>>, <<16777216, 0>>, <<14220198, 557817236>>, <<10444760, 708939660>>, <<5656084, 157795725>>, <<0, 0>> >> >>

\* Round-to-nearest, ties-to-even, of the exact sum hi * F64Limb + lo to the 53
\* significant bits of an f64: the spacing of f64 values is 1, 2, 4, 8, 16
\* units in [0, 1/4), [1/4, 1/2), [1/2, 1), [1, 2), [2, 4).
RoundF64(hi, lo) ==
    LET h == hi + (lo \div F64Limb)
        l == lo % F64Limb
        spacing == IF h < 2^23 THEN 1 ELSE IF h < 2^24 THEN 2 ELSE IF h < 2^25 THEN 4
                   ELSE IF h < 2^26 THEN 8 ELSE 16
        r == l % spacing
        q == l \div spacing
        up == (r * 2 > spacing) \/ (r * 2 = spacing /\ q % 2 = 1)
        rounded == (IF up THEN q + 1 ELSE q) * spacing
    IN  << h + (rounded \div F64Limb), rounded % F64Limb >>

\* The loop `for &count in pattern_groups.values() { entropy -= ... }` over the
\* counts from position i on, in the order the HashMap yields them.
RECURSIVE ShannonLoopF64(_, _, _, _)
ShannonLoopF64(i, counts, total_words, entropy) ==
    IF i > Len(counts) THEN entropy
    ELSE LET term == TermF64[total_words][counts[i]]
         IN  ShannonLoopF64(i + 1, counts, total_words,
                            RoundF64(entropy[1] + term[1], entropy[2] + term[2]))

\* calculate_entropy returning 0.0 for up to two remaining words.
calculate_entropy_f64_two_words(candidate_word, remaining_words, order) ==
    IF Len(remaining_words) <= 2 THEN << 0, 0 >>
    ELSE LET patterns == [i \in 1..Len(remaining_words) |->
                             simulate_guess_pattern(candidate_word, remaining_words[i])]
             counts == [i \in 1..Len(order) |-> CountOf(patterns, order[i])]
         IN  ShannonLoopF64(1, counts, Len(remaining_words), << 0, 0 >>)

\* IntelligentSolver::calculate_entropy as the f64 it returns, for up to eight
\* remaining words; order lists the keys of pattern_groups as values() yields
\* them (a HashMap with a random hasher: any order).
calculate_entropy_f64(candidate_word, remaining_words, order) ==
    IF Len(remaining_words) = 0 \/ Len(remaining_words) = 1 THEN << 0, 0 >>
    ELSE LET patterns == [i \in 1..Len(remaining_words) |->
                             simulate_guess_pattern(candidate_word, remaining_words[i])]
             counts == [i \in 1..Len(order) |-> CountOf(patterns, order[i])]
         IN  ShannonLoopF64(1, counts, Len(remaining_words), << 0, 0 >>)

(***************************************************************************)
(* Candidate selector                                                      *)
(***************************************************************************)

\* The loop `for word in ...: if !candidates.contains(&word) { push }` over
\* words[lo..hi], in order.
RECURSIVE PushMissing(_, _, _, _)
PushMissing(lo, hi, words, candidates) ==
    IF lo > hi THEN candidates
    ELSE IF lo = hi
    THEN IF ~ Contains(candidates, words[lo]) THEN Append(candidates, words[lo])
         ELSE candidates
    ELSE LET first_half == PushMissing(lo, (lo + hi) \div 2, words, candidates)
         IN  IF Len(first_half) >= 0
             THEN PushMissing((lo + hi) \div 2 + 1, hi, words, first_half)
             ELSE first_half

\* `candidates.len() > config.candidate_cap as usize`: a negative i32 cast to
\* usize is above every Vec length, so nothing is truncated then.
ExceedsCap(len, candidate_cap) == candidate_cap >= 0 /\ len > candidate_cap

\* Steps 1 and 2 of get_candidate_words with the branches of
\* `if config.include_killer_words` exchanged.
strategic_candidates_swapped(remaining_words, include_killer_words) ==
    LET strategic == IF include_killer_words THEN get_top_strategic_words
                     ELSE get_killer_words
    IN  PushMissing(1, Len(strategic), strategic, remaining_words)

\* Steps 1 and 2 of get_candidate_words, under its first lock of SOLVER_CONFIG:
\* the remaining words, then the strategic words not yet among the candidates.
strategic_candidates(remaining_words, include_killer_words) ==
    LET strategic == IF include_killer_words THEN get_killer_words
                     ELSE get_top_strategic_words
    IN  PushMissing(1, Len(strategic), strategic, remaining_words)

\* Step 3 of get_candidate_words, under its second lock of SOLVER_CONFIG.
capped_candidates(candidates, candidate_cap) ==
    IF ExceedsCap(Len(candidates), candidate_cap)
    THEN SubSeq(candidates, 1, candidate_cap)
    ELSE candidates

\* IntelligentSolver::get_candidate_words under configuration cfg, when no
\* set_solver_config runs between its two locks.
get_candidate_words(remaining_words, cfg) ==
    capped_candidates(strategic_candidates(remaining_words, cfg.include_killer_words),
                      cfg.candidate_cap)

\* f64::NEG_INFINITY, below every score.
NegInfinity == -1

\* prime_suspect_bonus 0.1, in micro-bits.
PrimeSuspectBonus == 100000

\* The local early_termination_threshold 5.0 of get_best_guess, in micro-bits.
EarlyTerminationThreshold == 5000000

\* The hard cap on candidates_processed.
HardCap == 100

\* The hard cap compared with `>` instead of `>=`.
HardCapExceeded(candidates_processed) == candidates_processed > HardCap

\* `if candidates_processed >= 100 { break; }`
HardCapReached(candidates_processed) == candidates_processed >= HardCap

\* A scoring step that lets a later candidate of equal score replace the best.
ScoringStepLastOfTies(s, i, candidate_words, remaining_words) ==
    IF s.done THEN s
    ELSE LET candidate == candidate_words[i]
             entropy_score == calculate_entropy(candidate, remaining_words)
             prime_suspect_bonus == IF Contains(remaining_words, candidate)
                                    THEN PrimeSuspectBonus ELSE 0
             combined_score == entropy_score + prime_suspect_bonus
             improved == combined_score >= s.best_score
             new_word == IF improved THEN candidate ELSE s.best_word
             new_score == IF improved THEN combined_score ELSE s.best_score
         IN  IF improved /\ entropy_score >= EarlyTerminationThreshold
             THEN [ best_word |-> new_word, best_score |-> new_score,
                    candidates_processed |-> s.candidates_processed,
                    scored |-> s.scored + 1, done |-> TRUE ]
             ELSE [ best_word |-> new_word, best_score |-> new_score,
                    candidates_processed |-> s.candidates_processed + 1,
                    scored |-> s.scored + 1,
                    done |-> HardCapReached(s.candidates_processed + 1) ]

\* One iteration of the scoring loop of IntelligentSolver::get_best_guess, on
\* candidate i.  s holds best_word, best_score, candidates_processed, the
\* number of candidates whose entropy was computed, and whether the loop has
\* left through a `break`.  statistical_weight is 0.0, so the statistical score
\* adds nothing to combined_score.
ScoringStep(s, i, candidate_words, remaining_words) ==
    IF s.done THEN s
    ELSE LET candidate == candidate_words[i]
             entropy_score == calculate_entropy(candidate, remaining_words)
             prime_suspect_bonus == IF Contains(remaining_words, candidate)
                                    THEN PrimeSuspectBonus ELSE 0
             combined_score == entropy_score + prime_suspect_bonus
             improved == combined_score > s.best_score
             new_word == IF improved THEN candidate ELSE s.best_word
             new_score == IF improved THEN combined_score ELSE s.best_score
         IN  IF improved /\ entropy_score >= EarlyTerminationThreshold
             THEN [ best_word |-> new_word, best_score |-> new_score,
                    candidates_processed |-> s.candidates_processed,
                    scored |-> s.scored + 1, done |-> TRUE ]
             ELSE [ best_word |-> new_word, best_score |-> new_score,
                    candidates_processed |-> s.candidates_processed + 1,
                    scored |-> s.scored + 1,
                    done |-> HardCapReached(s.candidates_processed + 1) ]

\* The scoring loop over candidates lo..hi, in order.  (The range is halved so
\* that long pools do not nest deeply.)
RECURSIVE ScoringLoop(_, _, _, _, _)
ScoringLoop(lo, hi, s, candidate_words, remaining_words) ==
    IF lo > hi THEN s
    ELSE IF lo = hi THEN ScoringStep(s, lo, candidate_words, remaining_words)
    ELSE LET first_half == ScoringLoop(lo, (lo + hi) \div 2, s, candidate_words,
                                       remaining_words)
         IN  IF first_half.done
             THEN first_half
             ELSE ScoringLoop((lo + hi) \div 2 + 1, hi, first_half, candidate_words,
                              remaining_words)

\* IntelligentSolver::get_best_guess under configuration cfg: the returned
\* Option<String> with the size of the pool and the work done.
solver_get_best_guess(remaining_words, cfg) ==
    IF Len(remaining_words) = 0
    THEN [ best_word |-> None, pool |-> 0, candidates_processed |-> 0, scored |-> 0 ]
    ELSE IF Len(remaining_words) <= 2
    THEN [ best_word |-> remaining_words[1], pool |-> 0, candidates_processed |-> 0,
           scored |-> 0 ]
    ELSE LET candidate_words == get_candidate_words(remaining_words, cfg)
             r == ScoringLoop(1, Len(candidate_words),
                              [ best_word |-> None, best_score |-> NegInfinity,
                                candidates_processed |-> 0, scored |-> 0, done |-> FALSE ],
                              candidate_words, remaining_words)
         IN  [ best_word |-> r.best_word, pool |-> Len(candidate_words),
               candidates_processed |-> r.candidates_processed, scored |-> r.scored ]

(***************************************************************************)
(* External interface                                                      *)
(***************************************************************************)

\* `match p.as_str() { "G" => Green, "Y" => Yellow, "X" => Gray, _ => Gray }`
LetterResultOfToken(p) ==
    IF p = "G" THEN "Green" ELSE IF p = "Y" THEN "Yellow" ELSE "Gray"

\* The conversion of the FFI records to GuessResult values in get_best_guess.
ToInternal(guess_results) ==
    [k \in 1..Len(guess_results) |->
        [ word |-> guess_results[k][1],
          results |-> [i \in Positions |-> LetterResultOfToken(guess_results[k][2][i])] ]]

\* The compact token of a LetterResult (the benchmark's conversion to FFI format).
TokenOfLetterResult(lr) ==
    IF lr = "Green" THEN "G" ELSE IF lr = "Yellow" THEN "Y" ELSE "X"

\* A GuessResult as the FFI pair (word, pattern tokens).
ToFfi(guess_result) ==
    << guess_result.word, [i \in Positions |-> TokenOfLetterResult(guess_result.results[i])] >>

(***************************************************************************)
(* Word repository                                                         *)
(***************************************************************************)

LowerLetters ==
  << "a","b","c","d","e","f","g","h","i","j","k","l","m",
     "n","o","p","q","r","s","t","u","v","w","x","y","z" >>

UpperLetters ==
  << "A","B","C","D","E","F","G","H","I","J","K","L","M",
     "N","O","P","Q","R","S","T","U","V","W","X","Y","Z" >>

\* String::to_uppercase on a word.
to_uppercase(w) ==
    [i \in DOMAIN w |-> IF Contains(LowerLetters, w[i])
                        THEN UpperLetters[PositionOf(LowerLetters, w[i])]
                        ELSE w[i]]

\* The probe loop of WordManager::compute_optimal_first_guess from probe k on:
\* the first probe word some guess word uppercases to, else the old value.
RECURSIVE ProbeFrom(_, _, _)
ProbeFrom(k, words, old) ==
    IF k > Len(optimal_first_guesses) THEN old
    ELSE IF \E i \in DOMAIN words : to_uppercase(words[i]) = optimal_first_guesses[k]
         THEN optimal_first_guesses[k]
         ELSE ProbeFrom(k + 1, words, old)

\* compute_optimal_first_guess without the `return` in its loop: the last probe
\* word found wins.
compute_optimal_first_guess_no_return(words, old) ==
    LET found == {k \in DOMAIN optimal_first_guesses :
                     \E i \in DOMAIN words : to_uppercase(words[i]) = optimal_first_guesses[k]}
    IN  IF Len(words) = 0 \/ found = {} THEN old
        ELSE optimal_first_guesses[CHOOSE k \in found : \A m \in found : m <= k]

\* WordManager::compute_optimal_first_guess: the new optimal_first_guess.
compute_optimal_first_guess(words, old) ==
    IF Len(words) = 0 THEN old ELSE ProbeFrom(1, words, old)

(***************************************************************************)
(* Inputs of the calls                                                     *)
(***************************************************************************)

\* Longest history a caller submits.
MaxHistory == 2

\* Words the caller has guessed.
HistoryWords ==
    { <<"C","R","A","N","E">>, <<"O","U","I","J","A">>,
      <<"H","E","L","L","O">>, <<"T","A","R","E","S">> }

\* Hidden targets whose feedback the caller reports.
TargetWords ==
    { <<"C","R","A","N","E">>, <<"C","L","O","T","H">>, <<"L","L","A","M","A">> }

\* Records of the repository's tests and of the specification's scenarios.
ScenarioRecords ==
    { << <<"T","A","R","E","S">>, <<"G","Y","Y","X","X">> >>,
      << <<"C","R","A","N","E">>, <<"G","X","X","X","X">> >>,
      << <<"C","R","A","N","E">>, <<"X","X","X","X","X">> >>,
      << <<"C","R","A","N","E">>, <<"G","Y","X","X","G">> >> }

\* The records (word, pattern tokens) a caller submits.
RecordInputs ==
    {ToFfi(generate_feedback(g, t)) : g \in HistoryWords, t \in TargetWords}
        \cup ScenarioRecords

\* The histories a caller submits.
HistoryInputs == UNION {[1..n -> RecordInputs] : n \in 0..MaxHistory}

\* Candidate caps a caller configures.
CapInputs == {200, 0, -1}

\* The configurations a caller sets.
ConfigInputs ==
    {[DefaultConfig EXCEPT !.include_killer_words = k, !.candidate_cap = c] :
        k \in BOOLEAN, c \in CapInputs}

(***************************************************************************)
(* The engine behind its external interface                                *)
(***************************************************************************)

\* WordManager::new caching the first probe word instead of None.
InitWithCachedGuess ==
    /\ answer_words = <<>>
    /\ guess_words = <<>>
    /\ optimal_first_guess = optimal_first_guesses[1]
    /\ config = DefaultConfig
    /\ history = <<>>
    /\ last = [op |-> "new"]

Init ==
    /\ answer_words = <<>>
    /\ guess_words = <<>>
    /\ optimal_first_guess = None
    /\ config = DefaultConfig
    /\ history = <<>>
    /\ last = [op |-> "new"]

\* WordManager::load_words.
LoadWords ==
    /\ answer_words' = HardcodedWords
    /\ guess_words' = HardcodedWords
    /\ optimal_first_guess' = compute_optimal_first_guess(HardcodedWords, optimal_first_guess)
    /\ last' = [op |-> "load_words"]
    /\ UNCHANGED <<config, history>>

\* set_solver_config.
SetSolverConfig(c) ==
    /\ config' = c
    /\ UNCHANGED <<answer_words, guess_words, optimal_first_guess, history, last>>

\* The caller records the feedback of one more guess.
AddRecord(r) ==
    /\ Len(history) < MaxHistory
    /\ history' = Append(history, r)
    /\ last' = [op |-> "add_record"]
    /\ UNCHANGED <<answer_words, guess_words, optimal_first_guess, config>>

\* The caller starts a new game.
NewGame ==
    /\ history # <<>>
    /\ history' = <<>>
    /\ last' = [op |-> "new_game"]
    /\ UNCHANGED <<answer_words, guess_words, optimal_first_guess, config>>

\* get_best_guess of api/simple.rs for the guess words and the cached first
\* guess of the repository, under configuration cfg: the returned value (Panic
\* when the call panics) with the filtered words and the work done.
get_best_guess(words, first_guess, guess_results, cfg) ==
    LET none == [ ret |-> None, eligible_words |-> <<>>, pool |-> 0, scored |-> 0 ]
    IN  IF guess_results = <<>>
        THEN [none EXCEPT !.ret = first_guess]
        ELSE IF \E k \in DOMAIN guess_results : Len(guess_results[k][2]) < WordLen
        THEN \* `results[0], ..., results[4]` on fewer than five decoded tokens
             [none EXCEPT !.ret = Panic]
        ELSE LET internal_guess_results == ToInternal(guess_results)
                 filtered ==
                     IF \E k \in DOMAIN guess_results : Len(guess_results[k][1]) < WordLen
                     THEN filter_words_with_feedback_outcome(words, internal_guess_results)
                     ELSE [ panic |-> FALSE,
                            words |-> filter_words_with_feedback(words, internal_guess_results) ]
             IN  IF filtered.panic
                 THEN [none EXCEPT !.ret = Panic]
                 ELSE LET r == solver_get_best_guess(filtered.words, cfg)
                      IN  [ ret |-> r.best_word, eligible_words |-> filtered.words,
                            pool |-> r.pool, scored |-> r.scored ]

\* get_best_guess of api/simple.rs on the caller's history.
GetBestGuess ==
    /\ LET r == get_best_guess(guess_words, optimal_first_guess, history, config)
       IN  last' = [ op |-> "get_best_guess", config |-> config, ret |-> r.ret,
                     eligible_words |-> r.eligible_words, pool |-> r.pool,
                     scored |-> r.scored ]
    /\ UNCHANGED <<answer_words, guess_words, optimal_first_guess, config, history>>

Next ==
    \/ LoadWords
    \/ \E c \in ConfigInputs : SetSolverConfig(c)
    \/ \E r \in RecordInputs : AddRecord(r)
    \/ NewGame
    \/ GetBestGuess

Spec == Init /\ [][Next]_vars

(***************************************************************************)
(* The simulator and the filters on their own                              *)
(***************************************************************************)

\* Words the simulator and the per-record tests are applied to.
WordInputs ==
    Range(HardcodedWords) \cup HistoryWords \cup TargetWords
        \cup { <<"S","P","E","E","D">>, <<"T","R","A","C","K">>, <<"C","R","A","F","T">> }

\* Every feedback pattern.
PatternInputs == [Positions -> LetterResult]

\* Word lists a caller filters.
UniverseInputs ==
    { HardcodedWords,
      << <<"C","R","A","N","E">>, <<"S","L","A","T","E">>, <<"C","R","A","T","E">>,
         <<"C","H","A","S","E">>, <<"C","L","O","T","H">>, <<"C","L","O","U","D">> >>,
      << <<"C","R","A","N","E">>, <<"S","L","O","T","H">>, <<"B","L","I","M","P">> >> }

\* The calls a caller makes on the simulator and the filters.
FilterCalls ==
    {[op |-> "call_simulate", guess |-> g, target |-> t] :
        g \in WordInputs, t \in WordInputs}
    \cup {[op |-> "call_word_matches", candidate |-> c,
           guess_result |-> [word |-> g, results |-> p]] :
        c \in WordInputs, g \in HistoryWords, p \in PatternInputs}
    \cup {[op |-> "call_filter_words", words |-> w, guess_results |-> h] :
        w \in UniverseInputs, h \in HistoryInputs}

InitFilter ==
    /\ answer_words = <<>>
    /\ guess_words = <<>>
    /\ optimal_first_guess = None
    /\ config = DefaultConfig
    /\ history = <<>>
    /\ last \in FilterCalls

\* simulate_guess_pattern(guess, target) and generate_feedback(guess, target).
SimulateGuessPattern ==
    /\ last.op = "call_simulate"
    /\ last' = [ op |-> "simulate_guess_pattern", guess |-> last.guess,
                 target |-> last.target,
                 pattern |-> simulate_guess_pattern(last.guess, last.target),
                 feedback |-> generate_feedback(last.guess, last.target).results ]
    /\ UNCHANGED <<answer_words, guess_words, optimal_first_guess, config, history>>

\* WordleBenchmark::word_matches_single_feedback: Green positions hold the
\* guess's letter, a Yellow letter is elsewhere in the candidate, and a letter
\* of a Gray position occurs no more often than it is Green or Yellow.
benchmark_word_matches_single_feedback(candidate, guess_result) ==
    LET candidate_chars == candidate
        guess_chars == guess_result.word
        required_counts(letter) ==
            Cardinality({i \in Positions : /\ guess_chars[i] = letter
                                           /\ guess_result.results[i] \in {"Green", "Yellow"}})
        actual_count(letter) ==
            Cardinality({i \in Positions : candidate_chars[i] = letter})
    IN  /\ \A i \in Positions :
              guess_result.results[i] = "Green" => candidate_chars[i] = guess_chars[i]
        /\ \A i \in Positions :
              guess_result.results[i] = "Yellow" =>
                  /\ candidate_chars[i] # guess_chars[i]
                  /\ Contains(candidate_chars, guess_chars[i])
        /\ \A i \in Positions :
              guess_result.results[i] = "Gray" =>
                  ~ (actual_count(guess_chars[i]) > required_counts(guess_chars[i]))

\* The per-record tests applied to one candidate and one record.
WordMatches ==
    /\ last.op = "call_word_matches"
    /\ last' = [ op |-> "word_matches", candidate |-> last.candidate,
                 guess_result |-> last.guess_result,
                 second |-> word_matches_single_feedback(last.candidate, last.guess_result),
                 first |-> word_matches_single_feedback_first(last.candidate, last.guess_result),
                 benchmark |-> benchmark_word_matches_single_feedback(last.candidate,
                                                                      last.guess_result),
                 solver |-> word_matches_pattern(last.candidate, last.guess_result) ]
    /\ UNCHANGED <<answer_words, guess_words, optimal_first_guess, config, history>>

\* The filters applied to a word list and a history.
FilterWords ==
    /\ last.op = "call_filter_words"
    /\ LET guess_results == ToInternal(last.guess_results)
       IN  last' = [ op |-> "filter_words", words |-> last.words,
                     guess_results |-> guess_results,
                     second |-> filter_words_with_feedback(last.words, guess_results),
                     first |-> filter_words_with_feedback_first(last.words, guess_results),
                     solver |-> filter_words(last.words, guess_results) ]
    /\ UNCHANGED <<answer_words, guess_words, optimal_first_guess, config, history>>

\* The filters applied once more, to their own results.
FilterAgain ==
    /\ last.op = "filter_words"
    /\ last' = [ op |-> "filter_again", words |-> last.words,
                 guess_results |-> last.guess_results,
                 second_in |-> last.second, solver_in |-> last.solver,
                 second |-> filter_words_with_feedback(last.second, last.guess_results),
                 solver |-> filter_words(last.solver, last.guess_results) ]
    /\ UNCHANGED <<answer_words, guess_words, optimal_first_guess, config, history>>

NextFilter ==
    \/ SimulateGuessPattern
    \/ WordMatches
    \/ FilterWords
    \/ FilterAgain

SpecFilter == InitFilter /\ [][NextFilter]_vars

(***************************************************************************)
(* The solver on remaining words the caller supplies                       *)
(***************************************************************************)

\* Longest of the short remaining-word lists, and the length of the long one.
MaxRemaining == 24
LongRemaining == 120

\* The first two letters of the supplied words.
SupplyLetters == << "B","C","D","F","G","H","K","M","N","P","R" >>

\* The i-th supplied word.
SupplyWord(i) ==
    << SupplyLetters[(((i - 1) \div Len(SupplyLetters)) % Len(SupplyLetters)) + 1],
       SupplyLetters[((i - 1) % Len(SupplyLetters)) + 1], "O", "Z", "Y" >>

\* The remaining-word lists a caller supplies: the first n supplied words, and
\* as many supplied words as the scoring loop processes followed by a word of
\* five different supplied letters.
RemainingInputs ==
    {[i \in 1..n |-> SupplyWord(i)] : n \in (0..MaxRemaining) \cup {LongRemaining}}
        \cup { [i \in 1..HardCap |-> SupplyWord(i)] \o << <<"B","C","D","F","G">> >> }

\* The configurations a caller sets to steer early termination: the flag off
\* or on, the threshold at 1.0 or at 5.0 bits.
TerminationConfigInputs ==
    {[DefaultConfig EXCEPT !.early_termination_enabled = e,
                           !.early_termination_threshold = th] :
        e \in BOOLEAN, th \in {1000000, 5000000}}

InitSolver ==
    /\ answer_words = <<>>
    /\ guess_words = <<>>
    /\ optimal_first_guess = None
    /\ config = DefaultConfig
    /\ history = <<>>
    /\ last \in {[op |-> "call_get_intelligent_guess", all_words |-> HardcodedWords,
                  remaining_words |-> r] : r \in RemainingInputs}

\* get_intelligent_guess of api/simple.rs with no guess results.
GetIntelligentGuess ==
    /\ last.op = "call_get_intelligent_guess"
    /\ LET remaining_words == last.remaining_words
           r == IF Len(remaining_words) = 0
                THEN [ best_word |-> None, pool |-> 0, candidates_processed |-> 0,
                       scored |-> 0 ]
                ELSE solver_get_best_guess(remaining_words, config)
       IN  last' = [ op |-> "get_intelligent_guess", config |-> config,
                     remaining |-> Len(remaining_words),
                     ret |-> r.best_word, pool |-> r.pool, scored |-> r.scored,
                     candidates_processed |-> r.candidates_processed ]
    /\ UNCHANGED <<answer_words, guess_words, optimal_first_guess, config, history>>

NextSolver ==
    \/ \E c \in ConfigInputs \cup TerminationConfigInputs : SetSolverConfig(c)
    \/ GetIntelligentGuess

SpecSolver == InitSolver /\ [][NextSolver]_vars

(***************************************************************************)
(* Candidate assembly concurrent with set_solver_config                    *)
(***************************************************************************)

\* The remaining-word lists of the calls in flight.
CandidateRemainingInputs ==
    RemainingInputs \cup
    { <<>>,
      << <<"C","L","O","T","H">>, <<"C","L","O","U","D">> >>,
      << <<"P","S","Y","C","H">>, <<"S","L","A","T","E">> >>,
      << <<"Z","E","B","R","A">>, <<"G","L","Y","P","H">>, <<"V","O","M","I","T">>,
         <<"J","U","M","B","O">>, <<"P","S","Y","C","H">> >> }

InitCandidates ==
    /\ answer_words = <<>>
    /\ guess_words = <<>>
    /\ optimal_first_guess = None
    /\ config = DefaultConfig
    /\ history = <<>>
    /\ last \in {[op |-> "call_get_candidate_words", remaining_words |-> r] :
                    r \in CandidateRemainingInputs}

\* get_candidate_words up to `drop(config)` of its first lock: the thread of
\* the call holds SOLVER_CONFIG, reads include_killer_words and releases.
AssembleCandidates ==
    /\ last.op = "call_get_candidate_words"
    /\ last' = [ op |-> "candidates_assembled",
                 remaining_words |-> last.remaining_words,
                 first_config |-> config,
                 candidates |-> strategic_candidates(last.remaining_words,
                                                     config.include_killer_words) ]
    /\ UNCHANGED <<answer_words, guess_words, optimal_first_guess, config, history>>

\* get_candidate_words from its second lock to its return: reads candidate_cap
\* and truncates.
ApplyCandidateCap ==
    /\ last.op = "candidates_assembled"
    /\ last' = [ op |-> "get_candidate_words",
                 remaining_words |-> last.remaining_words,
                 first_config |-> last.first_config,
                 second_config |-> config,
                 ret |-> capped_candidates(last.candidates, config.candidate_cap) ]
    /\ UNCHANGED <<answer_words, guess_words, optimal_first_guess, config, history>>

\* set_solver_config on another thread takes the lock whenever it is free:
\* before, between and after the two locks of the call.
NextCandidates ==
    \/ \E c \in ConfigInputs : SetSolverConfig(c)
    \/ AssembleCandidates
    \/ ApplyCandidateCap

SpecCandidates == InitCandidates /\ [][NextCandidates]_vars

(***************************************************************************)
(* The entropy scorer in floating point                                    *)
(***************************************************************************)

\* The longest remaining list drawn from the built-in words.
MaxEntropyWords == 7

\* The candidate words scored.
EntropyCandidates == { <<"C","R","A","N","E">>, <<"S","L","A","T","E">> }

\* The remaining lists scored: the first words of the built-in list, and seven
\* words that SLATE tells apart.
EntropyRemainingInputs ==
    {SubSeq(HardcodedWords, 1, n) : n \in 0..MaxEntropyWords} \cup
    { << <<"C","R","A","N","E">>, <<"S","L","A","T","E">>, <<"C","R","A","T","E">>,
         <<"P","L","A","T","E">>, <<"T","R","A","C","E">>, <<"C","H","A","S","E">>,
         <<"C","L","O","T","H">> >> }

\* The sequences that list every element of S once.
RECURSIVE Orders(_)
Orders(S) ==
    IF S = {} THEN { <<>> }
    ELSE UNION { { <<x>> \o o : o \in Orders(S \ {x}) } : x \in S }

\* The keys of pattern_groups.
PatternGroups(candidate_word, remaining_words) ==
    { simulate_guess_pattern(candidate_word, remaining_words[i]) :
        i \in 1..Len(remaining_words) }

InitEntropy ==
    /\ answer_words = <<>>
    /\ guess_words = <<>>
    /\ optimal_first_guess = None
    /\ config = DefaultConfig
    /\ history = <<>>
    /\ last \in UNION { {[op |-> "call_calculate_entropy", candidate_word |-> call[1],
                          remaining_words |-> call[2], order |-> o] :
                             o \in Orders(PatternGroups(call[1], call[2]))} :
                        call \in EntropyCandidates \X EntropyRemainingInputs }

\* IntelligentSolver::calculate_entropy on the call drawn.
CalculateEntropy ==
    /\ last.op = "call_calculate_entropy"
    /\ last' = [ op |-> "calculate_entropy",
                 candidate_word |-> last.candidate_word,
                 remaining_words |-> last.remaining_words,
                 ret |-> calculate_entropy_f64(last.candidate_word, last.remaining_words,
                                               last.order) ]
    /\ UNCHANGED <<answer_words, guess_words, optimal_first_guess, config, history>>

NextEntropy == CalculateEntropy

SpecEntropy == InitEntropy /\ [][NextEntropy]_vars

(***************************************************************************)
(* Self-play: WordleBenchmark::simulate_game                               *)
(***************************************************************************)

\* The largest max_guesses a game is run with.
MaxGuesses == 3

\* The targets played: built-in words, and one word outside the lexicon.
GameTargets ==
    { <<"S","L","A","T","E">>, <<"C","R","A","N","E">>, <<"G","R","A","T","E">>,
      <<"B","L","I","M","P">>, <<"L","L","A","M","A">> }

\* The body of `for attempt in 1..=max_guesses` after get_best_guess has
\* answered, but with the feedback pushed without the test `guess ==
\* target_word`: the game never returns from inside the loop.
simulate_game_attempt_no_return(game, best_guess) ==
    LET attempt == game.attempt + 1
    IN  IF best_guess # None
        THEN [ game EXCEPT !.op = "simulate_game_loop", !.attempt = attempt,
                           !.guesses = Append(game.guesses, best_guess),
                           !.guess_results = Append(game.guess_results,
                               generate_feedback(best_guess, game.target_word)) ]
        ELSE [ game EXCEPT !.op = "simulate_game_loop", !.attempt = attempt,
                           !.broke = TRUE ]

\* The body of `for attempt in 1..=max_guesses` after get_best_guess has
\* answered: the locals of simulate_game after the iteration, or the GameResult
\* returned from inside the loop.
simulate_game_attempt(game, best_guess) ==
    LET attempt == game.attempt + 1
    IN  IF best_guess # None
        THEN IF best_guess = game.target_word
             THEN [ game EXCEPT !.op = "simulate_game", !.attempt = attempt,
                                !.guesses = Append(game.guesses, best_guess),
                                !.guess_count = attempt,
                                !.solved = TRUE ]
             ELSE [ game EXCEPT !.op = "simulate_game_loop", !.attempt = attempt,
                                !.guesses = Append(game.guesses, best_guess),
                                !.guess_results = Append(game.guess_results,
                                    generate_feedback(best_guess, game.target_word)) ]
        ELSE [ game EXCEPT !.op = "simulate_game_loop", !.attempt = attempt,
                           !.broke = TRUE ]

\* The call simulate_game(target_word, max_guesses) with its locals at entry:
\* attempt counts the iterations begun, broke records the `break`.
InitGame ==
    /\ answer_words = <<>>
    /\ guess_words = <<>>
    /\ optimal_first_guess = None
    /\ config = DefaultConfig
    /\ history = <<>>
    /\ last \in {[ op |-> "simulate_game_loop", target_word |-> t, max_guesses |-> m,
                   attempt |-> 0, guesses |-> <<>>, guess_results |-> <<>>,
                   broke |-> FALSE, guess_count |-> 0, solved |-> FALSE ] :
                     t \in GameTargets, m \in 0..MaxGuesses}

\* One iteration of the loop: the guess results converted to the FFI format,
\* initialize_word_lists (the built-in words are loaded), get_best_guess on the
\* converted results, and the rest of the body.
SimulateGameAttempt ==
    /\ last.op = "simulate_game_loop"
    /\ ~ last.broke
    /\ last.attempt < last.max_guesses
    /\ LET ffi_guess_results == [k \in 1..Len(last.guess_results) |->
                                    ToFfi(last.guess_results[k])]
           first_guess == compute_optimal_first_guess(HardcodedWords, optimal_first_guess)
           best_guess == get_best_guess(HardcodedWords, first_guess,
                                        ffi_guess_results, config).ret
       IN  /\ answer_words' = HardcodedWords
           /\ guess_words' = HardcodedWords
           /\ optimal_first_guess' = first_guess
           /\ history' = ffi_guess_results
           /\ last' = simulate_game_attempt(last, best_guess)
    /\ UNCHANGED config

\* The GameResult after the loop: left by `break` or after max_guesses
\* iterations.
SimulateGameReturn ==
    /\ last.op = "simulate_game_loop"
    /\ last.broke \/ last.attempt >= last.max_guesses
    /\ last' = [ last EXCEPT !.op = "simulate_game",
                             !.guess_count = Len(last.guesses),
                             !.solved = FALSE ]
    /\ UNCHANGED <<answer_words, guess_words, optimal_first_guess, config, history>>

\* set_solver_config may run between the iterations.
NextGame ==
    \/ \E c \in ConfigInputs : SetSolverConfig(c)
    \/ SimulateGameAttempt
    \/ SimulateGameReturn

SpecGame == InitGame /\ [][NextGame]_vars

(***************************************************************************)
(* Self-play on a lexicon in which several words stay after the first      *)
(* guess                                                                   *)
(***************************************************************************)

\* The largest max_guesses such a game is run with.
PlayMaxGuesses == 5

\* The word lists initialize_word_lists establishes for these games.
PlayLexicon ==
    << <<"S","L","A","T","E">>, <<"L","I","G","H","T">>, <<"M","I","G","H","T">>,
       <<"N","I","G","H","T">>, <<"F","I","G","H","T">>, <<"S","I","G","H","T">>,
       <<"R","I","G","H","T">>, <<"T","I","G","H","T">>, <<"E","I","G","H","T">>,
       <<"C","R","A","N","E">> >>

\* simulate_game(target_word, max_guesses) at entry, for every target of the
\* lexicon.
InitPlay ==
    /\ answer_words = <<>>
    /\ guess_words = <<>>
    /\ optimal_first_guess = None
    /\ config = DefaultConfig
    /\ history = <<>>
    /\ last \in {[ op |-> "simulate_game_loop", target_word |-> t, max_guesses |-> m,
                   attempt |-> 0, guesses |-> <<>>, guess_results |-> <<>>,
                   broke |-> FALSE, guess_count |-> 0, solved |-> FALSE ] :
                     t \in Range(PlayLexicon), m \in 0..PlayMaxGuesses}

\* One iteration of the loop of simulate_game on this lexicon.
PlayAttempt ==
    /\ last.op = "simulate_game_loop"
    /\ ~ last.broke
    /\ last.attempt < last.max_guesses
    /\ LET ffi_guess_results == [k \in 1..Len(last.guess_results) |->
                                    ToFfi(last.guess_results[k])]
           first_guess == compute_optimal_first_guess(PlayLexicon, optimal_first_guess)
           best_guess == get_best_guess(PlayLexicon, first_guess,
                                        ffi_guess_results, config).ret
       IN  /\ answer_words' = PlayLexicon
           /\ guess_words' = PlayLexicon
           /\ optimal_first_guess' = first_guess
           /\ history' = ffi_guess_results
           /\ last' = simulate_game_attempt(last, best_guess)
    /\ UNCHANGED config

\* set_solver_config may run between the iterations.
NextPlay ==
    \/ \E c \in ConfigInputs : SetSolverConfig(c)
    \/ PlayAttempt
    \/ SimulateGameReturn

SpecPlay == InitPlay /\ [][NextPlay]_vars

(***************************************************************************)
(* The mutexes WORD_MANAGER and SOLVER_CONFIG under concurrent calls        *)
(***************************************************************************)

\* The threads that call get_best_guess.
BestGuessThreads == { "best_guess_1", "best_guess_2" }

\* All threads: two callers of get_best_guess, one of set_solver_config, one
\* of the loader.
Threads == BestGuessThreads \cup { "set_solver_config", "load_words" }

\* The holder of a mutex that no thread holds.
Free == "free"

\* The histories the callers of get_best_guess pass: the first guess, one that
\* leaves two of the built-in words, one that leaves eight.
LockHistoryInputs ==
    { <<>>,
      << << <<"C","R","A","N","E">>, <<"G","X","X","X","X">> >> >>,
      << << <<"O","U","I","J","A">>, <<"X","X","X","X","Y">> >> >> }

\* get_best_guess after `let all_words = manager.get_guess_words().to_vec();`
\* with the `drop(manager)` left out: the guard lives to the end of the call.
AfterCopyWordsKeepLock(l, t, words) ==
    [ l EXCEPT !.pc[t] = "filter", !.all_words[t] = words ]

\* get_best_guess after `let all_words = manager.get_guess_words().to_vec();
\* drop(manager);`: the words copied, WORD_MANAGER released.
AfterCopyWords(l, t, words) ==
    [ l EXCEPT !.pc[t] = "filter", !.all_words[t] = words, !.word_manager = Free ]

InitLocks ==
    /\ answer_words = <<>>
    /\ guess_words = <<>>
    /\ optimal_first_guess = None
    /\ config = DefaultConfig
    /\ history \in LockHistoryInputs
    /\ last = [ op |-> "threads",
                pc |-> [t \in Threads |-> "start"],
                word_manager |-> Free,
                solver_config |-> Free,
                all_words |-> [t \in BestGuessThreads |-> <<>>],
                eligible_words |-> [t \in BestGuessThreads |-> <<>>],
                candidates |-> [t \in BestGuessThreads |-> <<>>],
                ret |-> [t \in BestGuessThreads |-> None] ]

\* get_best_guess: `WORD_MANAGER.lock()`, in the branch of the empty history
\* or before the copy of the guess words; the thread waits while the mutex is
\* held.
BestGuessLockManager(t) ==
    /\ last.pc[t] = "start"
    /\ last.word_manager = Free
    /\ last' = [ last EXCEPT !.word_manager = t,
                             !.pc[t] = IF history = <<>> THEN "first_guess_locked"
                                       ELSE "words_locked" ]
    /\ UNCHANGED <<answer_words, guess_words, optimal_first_guess, config, history>>

\* get_best_guess: `manager.get_optimal_first_guess(); drop(manager); return`.
BestGuessReadFirstGuess(t) ==
    /\ last.pc[t] = "first_guess_locked"
    /\ last' = [ last EXCEPT !.word_manager = Free, !.pc[t] = "done",
                             !.ret[t] = optimal_first_guess ]
    /\ UNCHANGED <<answer_words, guess_words, optimal_first_guess, config, history>>

\* get_best_guess: the copy of the guess words under the mutex.
BestGuessCopyWords(t) ==
    /\ last.pc[t] = "words_locked"
    /\ last' = AfterCopyWords(last, t, guess_words)
    /\ UNCHANGED <<answer_words, guess_words, optimal_first_guess, config, history>>

\* get_best_guess from the conversion of the records to the first lines of
\* IntelligentSolver::get_best_guess: the words are filtered; none is returned
\* when no word is eligible and the first one when at most two are.
BestGuessFilter(t) ==
    /\ last.pc[t] = "filter"
    /\ LET eligible_words == filter_words_with_feedback(last.all_words[t],
                                                        ToInternal(history))
       IN  last' = IF Len(eligible_words) = 0
                   THEN [ last EXCEPT !.pc[t] = "done", !.ret[t] = None ]
                   ELSE IF Len(eligible_words) <= 2
                   THEN [ last EXCEPT !.pc[t] = "done", !.ret[t] = eligible_words[1],
                                      !.eligible_words[t] = eligible_words ]
                   ELSE [ last EXCEPT !.pc[t] = "candidates",
                                      !.eligible_words[t] = eligible_words ]
    /\ UNCHANGED <<answer_words, guess_words, optimal_first_guess, config, history>>

\* get_candidate_words: `SOLVER_CONFIG.lock().unwrap()`, the first and the
\* second time; the thread waits while the mutex is held.
BestGuessLockConfig(t) ==
    /\ last.pc[t] \in { "candidates", "between_locks" }
    /\ last.solver_config = Free
    /\ last' = [ last EXCEPT !.solver_config = t,
                             !.pc[t] = IF last.pc[t] = "candidates" THEN "config_locked_1"
                                       ELSE "config_locked_2" ]
    /\ UNCHANGED <<answer_words, guess_words, optimal_first_guess, config, history>>

\* get_candidate_words under its first lock: include_killer_words is read, the
\* strategic words are appended, `drop(config)`.
BestGuessAssemble(t) ==
    /\ last.pc[t] = "config_locked_1"
    /\ last' = [ last EXCEPT !.solver_config = Free, !.pc[t] = "between_locks",
                             !.candidates[t] = strategic_candidates(last.eligible_words[t],
                                                   config.include_killer_words) ]
    /\ UNCHANGED <<answer_words, guess_words, optimal_first_guess, config, history>>

\* get_candidate_words under its second lock: candidate_cap is read,
\* `drop(config)`, the pool is truncated.
BestGuessApplyCap(t) ==
    /\ last.pc[t] = "config_locked_2"
    /\ last' = [ last EXCEPT !.solver_config = Free, !.pc[t] = "score",
                             !.candidates[t] = capped_candidates(last.candidates[t],
                                                                 config.candidate_cap) ]
    /\ UNCHANGED <<answer_words, guess_words, optimal_first_guess, config, history>>

\* The scoring loop of IntelligentSolver::get_best_guess and the return.
BestGuessScore(t) ==
    /\ last.pc[t] = "score"
    /\ LET r == ScoringLoop(1, Len(last.candidates[t]),
                            [ best_word |-> None, best_score |-> NegInfinity,
                              candidates_processed |-> 0, scored |-> 0, done |-> FALSE ],
                            last.candidates[t], last.eligible_words[t])
       IN  last' = [ last EXCEPT !.pc[t] = "done", !.ret[t] = r.best_word ]
    /\ UNCHANGED <<answer_words, guess_words, optimal_first_guess, config, history>>

\* set_solver_config: `SOLVER_CONFIG.lock().unwrap()`.
SetConfigLock ==
    /\ last.pc["set_solver_config"] = "start"
    /\ last.solver_config = Free
    /\ last' = [ last EXCEPT !.solver_config = "set_solver_config",
                             !.pc["set_solver_config"] = "config_locked" ]
    /\ UNCHANGED <<answer_words, guess_words, optimal_first_guess, config, history>>

\* set_solver_config: `*config = SolverConfig { ... }` and the end of the
\* guard's scope.
SetConfigWrite(c) ==
    /\ last.pc["set_solver_config"] = "config_locked"
    /\ config' = c
    /\ last' = [ last EXCEPT !.solver_config = Free, !.pc["set_solver_config"] = "done" ]
    /\ UNCHANGED <<answer_words, guess_words, optimal_first_guess, history>>

\* The loader takes WORD_MANAGER.
LoadLock ==
    /\ last.pc["load_words"] = "start"
    /\ last.word_manager = Free
    /\ last' = [ last EXCEPT !.word_manager = "load_words",
                             !.pc["load_words"] = "manager_locked" ]
    /\ UNCHANGED <<answer_words, guess_words, optimal_first_guess, config, history>>

\* WordManager::load_words under the mutex, then the release.
LoadLocked ==
    /\ last.pc["load_words"] = "manager_locked"
    /\ answer_words' = HardcodedWords
    /\ guess_words' = HardcodedWords
    /\ optimal_first_guess' = compute_optimal_first_guess(HardcodedWords, optimal_first_guess)
    /\ last' = [ last EXCEPT !.word_manager = Free, !.pc["load_words"] = "done" ]
    /\ UNCHANGED <<config, history>>

NextLocks ==
    \/ \E t \in BestGuessThreads : BestGuessLockManager(t)
    \/ \E t \in BestGuessThreads : BestGuessReadFirstGuess(t)
    \/ \E t \in BestGuessThreads : BestGuessCopyWords(t)
    \/ \E t \in BestGuessThreads : BestGuessFilter(t)
    \/ \E t \in BestGuessThreads : BestGuessLockConfig(t)
    \/ \E t \in BestGuessThreads : BestGuessAssemble(t)
    \/ \E t \in BestGuessThreads : BestGuessApplyCap(t)
    \/ \E t \in BestGuessThreads : BestGuessScore(t)
    \/ SetConfigLock
    \/ \E c \in ConfigInputs : SetConfigWrite(c)
    \/ LoadLock
    \/ LoadLocked

SpecLocks == InitLocks /\ [][NextLocks]_vars

(***************************************************************************)
(* The external interface on lexicons and histories of any shape           *)
(***************************************************************************)

\* get_possible_words of api/simple.rs: the answer words for an empty history,
\* else the guess words the filter keeps, and whether the call panics.
get_possible_words(answers, words, guess_results) ==
    IF guess_results = <<>> THEN [ panic |-> FALSE, words |-> answers ]
    ELSE IF \E k \in DOMAIN guess_results : Len(guess_results[k][2]) < WordLen
    THEN [ panic |-> TRUE, words |-> <<>> ]
    ELSE IF \E k \in DOMAIN guess_results : Len(guess_results[k][1]) < WordLen
    THEN filter_words_with_feedback_outcome(words, ToInternal(guess_results))
    ELSE [ panic |-> FALSE,
           words |-> filter_words_with_feedback(words, ToInternal(guess_results)) ]

\* The loader's normalisation of a word list: uppercase, keep the words of
\* five alphabetic characters.
Normalize(words) ==
    SelectSeq([i \in DOMAIN words |-> to_uppercase(words[i])],
              LAMBDA w : Len(w) = WordLen /\ \A i \in DOMAIN w : Contains(UpperLetters, w[i]))

\* The lexicons (answers, guesses) a host loads.
LexiconInputs ==
    { [ answers |-> << <<"C","R","A","N","E">>, <<"S","L","A","T","E">>, <<"C","R","A","T","E">> >>,
        guesses |-> << <<"C","R","A","N","E">>, <<"S","L","A","T","E">>, <<"C","R","A","T","E">> >> ],
      [ answers |-> << <<"C","R","A","N","E">>, <<"S","L","A","T","E">>, <<"C","R","A","T","E">> >>,
        guesses |-> << <<"C","R","A","N","E">>, <<"S","L","A","T","E">>, <<"C","R","A","T","E">>,
                       <<"T","A","R","E","S">> >> ],
      [ answers |-> << <<"C","L","O","T","H">>, <<"C","L","O","U","D">> >>,
        guesses |-> << <<"C","L","O","T","H">>, <<"C","L","O","U","D">>, <<"B","L","I","M","P">> >> ],
      [ answers |-> << <<"c","r","a","t","e">> >>,
        guesses |-> << <<"c","r","a","t","e">>, <<"s","l","a","n","t">>,
                       <<"t","o","o","l","o","n","g">> >> ],
      [ answers |-> <<>>, guesses |-> <<>> ] }

\* The in-memory loader: replaces the lexicons by the normalised lists and
\* recomputes the cached first guess; a load without a five-letter guess word
\* fails and leaves the repository as it was.
LoadLexicons(lexicon) ==
    /\ IF Normalize(lexicon.guesses) = <<>>
       THEN /\ last' = [op |-> "load_lexicons", ok |-> FALSE]
            /\ UNCHANGED <<answer_words, guess_words, optimal_first_guess>>
       ELSE /\ answer_words' = Normalize(lexicon.answers)
            /\ guess_words' = Normalize(lexicon.guesses)
            /\ optimal_first_guess' =
                   compute_optimal_first_guess(Normalize(lexicon.guesses), optimal_first_guess)
            /\ last' = [op |-> "load_lexicons", ok |-> TRUE]
    /\ UNCHANGED <<config, history>>

\* Records with other spellings of the tokens.
SpellingRecords ==
    { << <<"C","R","A","N","E">>, <<"g","x","x","x","x">> >>,
      << <<"C","R","A","N","E">>, <<"GREEN","GRAY","GREY","Gray","gray">> >>,
      << <<"T","A","R","E","S">>, <<"G","y","Yellow","X","X">> >> }

\* Records whose word or pattern does not have five entries.
MalformedRecords ==
    { << <<"C","R","A","N">>, <<"G","X","X","X","X">> >>,
      << <<"C","R","A","N","E","S">>, <<"G","X","X","X","X">> >>,
      << <<"C","R","A","N","E">>, <<"G","X","X","X">> >>,
      << <<"C","R","A","N","E">>, <<"G","X","X","X","X","Y">> >> }

\* The histories a caller of the interface submits.
ApiHistoryInputs ==
    { <<>> } \cup { <<r>> : r \in ScenarioRecords \cup SpellingRecords \cup MalformedRecords }

\* The caller prepares the history of its next request.
SubmitHistory(h) ==
    /\ history' = h
    /\ last' = [op |-> "submit_history"]
    /\ UNCHANGED <<answer_words, guess_words, optimal_first_guess, config>>

\* get_possible_words of api/simple.rs on the caller's history.
GetPossibleWords ==
    /\ LET r == get_possible_words(answer_words, guess_words, history)
       IN  last' = [ op |-> "get_possible_words", panic |-> r.panic, ret |-> r.words ]
    /\ UNCHANGED <<answer_words, guess_words, optimal_first_guess, config, history>>

NextApi ==
    \/ LoadWords
    \/ \E lexicon \in LexiconInputs : LoadLexicons(lexicon)
    \/ \E h \in ApiHistoryInputs : SubmitHistory(h)
    \/ GetBestGuess
    \/ GetPossibleWords

SpecApi == Init /\ [][NextApi]_vars

(***************************************************************************)
(* The reference solver beside the production solver                       *)
(***************************************************************************)

\* get_top_statistical_words of the reference solver.
reference_top_statistical_words ==
    << <<"S","L","A","T","E">>, <<"C","R","A","N","E">>, <<"T","R","A","C","E">>,
       <<"S","L","A","N","T">>, <<"C","R","A","T","E">>, <<"C","A","R","T","E">>,
       <<"L","E","A","S","T">>, <<"S","T","A","R","E">>,
       <<"A","D","I","E","U">>, <<"A","U","D","I","O">>, <<"A","U","R","E","I">>,
       <<"R","O","A","T","E">>, <<"R","A","I","S","E">>, <<"S","O","A","R","E">>,
       <<"P","S","Y","C","H">>, <<"G","L","Y","P","H">>, <<"V","O","M","I","T">>,
       <<"J","U","M","B","O">>, <<"Z","E","B","R","A">> >>

\* The order of the capital letters in a String comparison.
LetterOrder ==
    << "A","B","C","D","E","F","G","H","I","J","K","L","M",
       "N","O","P","Q","R","S","T","U","V","W","X","Y","Z" >>

\* The place of a capital letter in that order.
LetterRank(ch) == PositionOf(LetterOrder, ch)

\* Ord for String on two words of five capital letters: a sorts before b.
WordLess(a, b) ==
    \E i \in Positions :
        /\ \A j \in 1..(i - 1) : a[j] = b[j]
        /\ LetterRank(a[i]) < LetterRank(b[i])

\* `candidates.sort(); candidates.dedup();`: the different words in order.
SortDedup(candidates) ==
    LET words == Range(candidates)
        rank(w) == Cardinality({v \in words : WordLess(v, w)}) + 1
    IN  [i \in 1..Cardinality(words) |-> CHOOSE w \in words : rank(w) = i]

\* get_candidate_words of the reference solver: the remaining words and the
\* top statistical words, sorted, each once.
reference_get_candidate_words(remaining_words) ==
    SortDedup(remaining_words \o reference_top_statistical_words)

\* The body of the reference scoring loop: a candidate replaces the best when
\* its entropy plus the prime-suspect bonus is strictly higher.
ReferenceScoringStep(s, i, candidate_words, remaining_words) ==
    LET candidate == candidate_words[i]
        entropy_score == calculate_entropy(candidate, remaining_words)
        prime_suspect_bonus == IF Contains(remaining_words, candidate)
                               THEN PrimeSuspectBonus ELSE 0
        combined_score == entropy_score + prime_suspect_bonus
    IN  IF combined_score > s.best_score
        THEN [ best_word |-> candidate, best_score |-> combined_score ]
        ELSE s

\* The reference scoring loop over candidates lo..hi, in order.
RECURSIVE ReferenceScoringLoop(_, _, _, _, _)
ReferenceScoringLoop(lo, hi, s, candidate_words, remaining_words) ==
    IF lo > hi THEN s
    ELSE IF lo = hi THEN ReferenceScoringStep(s, lo, candidate_words, remaining_words)
    ELSE ReferenceScoringLoop((lo + hi) \div 2 + 1, hi,
             ReferenceScoringLoop(lo, (lo + hi) \div 2, s, candidate_words,
                                  remaining_words),
             candidate_words, remaining_words)

\* A reference solver that answers the last of the remaining words.
reference_get_best_guess_last(remaining_words) ==
    IF Len(remaining_words) = 0 THEN None
    ELSE remaining_words[Len(remaining_words)]

\* IntelligentSolver::get_best_guess of the reference solver.
reference_get_best_guess(remaining_words) ==
    IF Len(remaining_words) = 0 THEN None
    ELSE IF Len(remaining_words) <= 2 THEN remaining_words[1]
    ELSE LET candidate_words == reference_get_candidate_words(remaining_words)
         IN  ReferenceScoringLoop(1, Len(candidate_words),
                                  [ best_word |-> None, best_score |-> NegInfinity ],
                                  candidate_words, remaining_words).best_word

\* Words a caller passes as remaining words to both solvers.
ReferenceWords ==
    { <<"S","L","A","T","E">>, <<"C","R","A","N","E">>, <<"C","R","A","T","E">>,
      <<"T","R","A","C","E">>, <<"B","L","I","M","P">> }

\* Up to three different words of them in any order, and the list of one
\* hundred supplied words followed by BCDFG.
ReferenceRemainingInputs ==
    UNION { {r \in [1..n -> ReferenceWords] : \A i, j \in 1..n : r[i] = r[j] => i = j} :
            n \in 0..3 }
        \cup { [i \in 1..HardCap |-> SupplyWord(i)] \o << <<"B","C","D","F","G">> >> }

\* The histories passed along: none, a record of five tokens, a record of four.
ReferenceHistoryInputs ==
    { <<>>,
      << << <<"A","U","D","I","O">>, <<"X","X","X","X","X">> >> >>,
      << << <<"A","U","D","I","O">>, <<"X","X","X","X">> >> >> }

\* The conversion loop of both entry points indexes results[0] to results[4].
ConversionPanics(guess_results) ==
    \E k \in DOMAIN guess_results : Len(guess_results[k][2]) < WordLen

InitReference ==
    /\ answer_words = <<>>
    /\ guess_words = <<>>
    /\ optimal_first_guess = None
    /\ config = DefaultConfig
    /\ history = <<>>
    /\ last \in {[op |-> "call_get_intelligent_guess_fast", remaining_words |-> r,
                  guess_results |-> h] :
                     r \in ReferenceRemainingInputs, h \in ReferenceHistoryInputs}

\* get_intelligent_guess_fast: the production solver on the remaining words.
GetIntelligentGuessFast ==
    /\ last.op = "call_get_intelligent_guess_fast"
    /\ last' = [ op |-> "get_intelligent_guess_fast",
                 remaining_words |-> last.remaining_words,
                 guess_results |-> last.guess_results,
                 ret |-> IF Len(last.remaining_words) = 0 THEN None
                         ELSE IF ConversionPanics(last.guess_results) THEN Panic
                         ELSE solver_get_best_guess(last.remaining_words, config).best_word ]
    /\ UNCHANGED <<answer_words, guess_words, optimal_first_guess, config, history>>

\* get_intelligent_guess_reference on the arguments of the call before it.
GetIntelligentGuessReference ==
    /\ last.op = "get_intelligent_guess_fast"
    /\ last' = [ op |-> "get_intelligent_guess_reference",
                 remaining_words |-> last.remaining_words,
                 guess_results |-> last.guess_results,
                 fast |-> last.ret,
                 ret |-> IF Len(last.remaining_words) = 0 THEN None
                         ELSE IF ConversionPanics(last.guess_results) THEN Panic
                         ELSE reference_get_best_guess(last.remaining_words) ]
    /\ UNCHANGED <<answer_words, guess_words, optimal_first_guess, config, history>>

NextReference ==
    \/ GetIntelligentGuessFast
    \/ GetIntelligentGuessReference

SpecReference == InitReference /\ [][NextReference]_vars

(***************************************************************************)
(* Properties                                                              *)
(***************************************************************************)

\* C1: every word the filter behind get_best_guess keeps from the guess words
\* replays each record of the history to the recorded pattern:
\* simulate(g, t) = p for every record (g, p) and every kept word t.
C1_ReplayConsistency ==
    (last.op = "get_best_guess" /\ history # <<>>) =>
        \A n \in DOMAIN last.eligible_words : \A k \in DOMAIN history :
            simulate_guess_pattern(history[k][1], last.eligible_words[n]) = history[k][2]

\* A word satisfies a record (word, tokens): Green positions fixed, Yellow
\* letters present but not at the banned position, Gray-only letters absent.
SatisfiesRecord(w, record) ==
    LET g == record[1]
        p == record[2]
    IN  /\ \A i \in Positions : p[i] = "G" => w[i] = g[i]
        /\ \A i \in Positions : p[i] = "Y" => (w[i] # g[i] /\ Contains(w, g[i]))
        /\ \A i \in Positions :
               (p[i] = "X" /\ \A j \in Positions : g[j] = g[i] => p[j] = "X")
                   => ~ Contains(w, g[i])

\* C2: for every non-empty history the word get_best_guess returns is a member
\* of the filtered remaining set and satisfies every record of the history.
C2_GuessSatisfiesHistory ==
    (last.op = "get_best_guess" /\ history # <<>> /\ last.ret # None) =>
        /\ Contains(last.eligible_words, last.ret)
        /\ \A k \in DOMAIN history : SatisfiesRecord(last.ret, history[k])

\* C3: the word get_best_guess returns, when not none, is a five-letter word
\* of the loaded guess words.
C3_GuessFromLexicon ==
    (last.op = "get_best_guess" /\ last.ret # None) =>
        (Len(last.ret) = WordLen /\ Contains(guess_words, last.ret))

\* C4: with words loaded and a non-empty history, get_best_guess returns none
\* exactly when the filtered guess words are empty, under every configuration.
C4_NoneIffEmpty ==
    (last.op = "get_best_guess" /\ guess_words # <<>> /\ history # <<>>) =>
        (last.ret = None <=> last.eligible_words = <<>>)

\* The number of Green-or-Yellow positions of the record's guess holding L.
MinReq(guess_result, L) ==
    Cardinality({i \in Positions :
        guess_result.word[i] = L /\ guess_result.results[i] \in {"Green", "Yellow"}})

\* The letters that are Gray somewhere in the record's guess.
GrayLetters(guess_result) ==
    {guess_result.word[i] : i \in {j \in Positions : guess_result.results[j] = "Gray"}}

\* The letters that are Gray and nowhere Green or Yellow in the record's guess.
GrayOnlyLetters(guess_result) ==
    {L \in GrayLetters(guess_result) : MinReq(guess_result, L) = 0}

\* The acceptance rule: fixed positions, banned positions, minimum counts, caps.
AcceptsRecord(c, guess_result) ==
    /\ \A i \in Positions : guess_result.results[i] = "Green" => c[i] = guess_result.word[i]
    /\ \A i \in Positions : guess_result.results[i] = "Yellow" => c[i] # guess_result.word[i]
    /\ \A L \in Range(guess_result.word) : CountOf(c, L) >= MinReq(guess_result, L)
    /\ \A L \in GrayLetters(guess_result) :
           CountOf(c, L) <= (IF MinReq(guess_result, L) > 0 THEN MinReq(guess_result, L) ELSE 0)

\* C5: the per-record tests of api/simple.rs accept a candidate for a record
\* exactly when the acceptance rule does.
C5_PerRecordTest ==
    last.op = "word_matches" =>
        /\ last.second = AcceptsRecord(last.candidate, last.guess_result)
        /\ last.first = AcceptsRecord(last.candidate, last.guess_result)

\* No kept word holds a letter that is Gray-only in some record.
NoGrayOnlyLetter(kept, guess_results) ==
    \A n \in DOMAIN kept : \A k \in DOMAIN guess_results :
        \A L \in GrayOnlyLetters(guess_results[k]) : ~ Contains(kept[n], L)

\* C6: in every filter, no kept word holds a letter that is Gray in a record
\* and neither Green nor Yellow anywhere in that record's guess.
C6_GrayOnlyExcluded ==
    last.op = "filter_words" =>
        /\ NoGrayOnlyLetter(last.solver, last.guess_results)
        /\ NoGrayOnlyLetter(last.second, last.guess_results)
        /\ NoGrayOnlyLetter(last.first, last.guess_results)

\* C7: position i of the simulated pattern is Green exactly when the guess and
\* the target hold the same letter at i, for simulate_guess_pattern and for
\* generate_feedback; so a word against itself is Green everywhere.
C7_GreenIffEqual ==
    last.op = "simulate_guess_pattern" =>
        \A i \in Positions :
            /\ last.pattern[i] = "G" <=> last.guess[i] = last.target[i]
            /\ last.feedback[i] = "Green" <=> last.guess[i] = last.target[i]

\* A guess with a Green letter that the target holds at another position too.
C7_Witness ==
    /\ last.op = "simulate_guess_pattern"
    /\ \E i \in Positions : \E j \in Positions \ {i} :
           /\ last.pattern[i] = "G"
           /\ last.target[j] = last.guess[i]
           /\ last.pattern[j] # "G"

\* C8: matches_all over h1 ++ h2 is the conjunction of matches_all over h1 and
\* over h2, and each filter keeps exactly the words every single record accepts.
C8_FilterIsConjunction ==
    last.op = "filter_words" =>
        LET h == last.guess_results
        IN  /\ \A n \in DOMAIN last.words : \A k \in 0..Len(h) :
                   word_matches_all_feedback(last.words[n], h)
                       = ( /\ word_matches_all_feedback(last.words[n], SubSeq(h, 1, k))
                           /\ word_matches_all_feedback(last.words[n], SubSeq(h, k + 1, Len(h))) )
            /\ last.second = SelectSeq(last.words,
                   LAMBDA w : \A k \in DOMAIN h : word_matches_single_feedback(w, h[k]))
            /\ last.solver = SelectSeq(last.words,
                   LAMBDA w : \A k \in DOMAIN h : word_matches_pattern(w, h[k]))

\* A two-record history whose first record accepts a word the second rejects,
\* with another word kept.
C8_Witness ==
    /\ last.op = "filter_words"
    /\ Len(last.guess_results) = 2
    /\ Len(last.second) > 0
    /\ \E n \in DOMAIN last.words :
           /\ word_matches_single_feedback(last.words[n], last.guess_results[1])
           /\ ~ word_matches_single_feedback(last.words[n], last.guess_results[2])

\* C9: filtering the filtered list by the same history gives the filtered list
\* again, in the same order.
C9_FilterIdempotent ==
    last.op = "filter_again" =>
        (last.second = last.second_in /\ last.solver = last.solver_in)

\* A filter that kept at least two words and dropped some, applied again.
C9_Witness ==
    /\ last.op = "filter_again"
    /\ last.guess_results # <<>>
    /\ Len(last.second_in) >= 2
    /\ Len(last.second_in) < Len(last.words)

\* C10: under the default configuration one call scores at most 100 candidates
\* and its pool has at most candidate_cap entries.
C10_SelectorBound ==
    (last.op = "get_intelligent_guess" /\ last.config = DefaultConfig) =>
        (last.scored <= 100 /\ last.pool <= last.config.candidate_cap)

\* A call under the default configuration whose pool was cut to the cap and
\* whose scoring loop left at the hard cap.
C10_Witness ==
    /\ last.op = "get_intelligent_guess"
    /\ last.config = DefaultConfig
    /\ last.remaining > 100
    /\ last.pool = last.config.candidate_cap
    /\ last.scored = 100

\* The first word of the probe order that is among the words.
FirstProbePresent(words) ==
    optimal_first_guesses[CHOOSE k \in DOMAIN optimal_first_guesses :
        /\ Contains(words, optimal_first_guesses[k])
        /\ \A m \in 1..(k - 1) : ~ Contains(words, optimal_first_guesses[m])]

\* Some word of the probe order is among the words.
SomeProbePresent(words) ==
    \E k \in DOMAIN optimal_first_guesses : Contains(words, optimal_first_guesses[k])

\* C11: with an empty history get_best_guess returns the first word of the
\* probe order TARES, SLATE, CRANE, CRATE, SLANT that is in the guess words.
C11_FirstGuessIsFirstProbe ==
    (last.op = "get_best_guess" /\ history = <<>> /\ SomeProbePresent(guess_words)) =>
        last.ret = FirstProbePresent(guess_words)

\* The guess words {CRANE, SLATE, CRATE} answer an empty history with SLATE.
C11_Witness ==
    /\ last.op = "get_best_guess"
    /\ history = <<>>
    /\ guess_words = << <<"C","R","A","N","E">>, <<"S","L","A","T","E">>, <<"C","R","A","T","E">> >>
    /\ last.ret = <<"S","L","A","T","E">>

\* C12: whenever the guess words are non-empty the cached first guess is set
\* and is a guess word: the first probe word present, else the first guess
\* word; it is never a value left from an earlier lexicon.
C12_CachedGuessOfCurrentLexicon ==
    guess_words # <<>> =>
        /\ optimal_first_guess # None
        /\ Contains(guess_words, optimal_first_guess)
        /\ optimal_first_guess = (IF SomeProbePresent(guess_words)
                                  THEN FirstProbePresent(guess_words)
                                  ELSE guess_words[1])

\* Every record has a five-letter word and five tokens.
WellFormed(h) ==
    \A k \in DOMAIN h : Len(h[k][1]) = WordLen /\ Len(h[k][2]) = WordLen

\* C13: before a successful load get_best_guess returns none for every
\* well-formed history and the repository stays empty.
C13_NoneBeforeLoad ==
    (last.op = "get_best_guess" /\ guess_words = <<>> /\ WellFormed(history)) =>
        (last.ret = None /\ answer_words = <<>> /\ optimal_first_guess = None)

\* A non-empty well-formed history answered before any load.
C13_Witness ==
    /\ last.op = "get_best_guess"
    /\ guess_words = <<>>
    /\ history # <<>>
    /\ WellFormed(history)
    /\ last.ret = None

\* The token a spelling stands for when decoded without regard to case.
CanonicalToken(p) ==
    IF p \in {"G", "g", "GREEN", "Green", "green"} THEN "G"
    ELSE IF p \in {"Y", "y", "YELLOW", "Yellow", "yellow"} THEN "Y"
    ELSE "X"

\* The history with every token in its compact upper-case spelling.
CanonicalHistory(h) ==
    [k \in DOMAIN h |-> << h[k][1], [i \in DOMAIN h[k][2] |-> CanonicalToken(h[k][2][i])] >>]

\* C15: tokens are decoded without regard to case and with the verbose forms,
\* so a history gives the same best guess and the same possible words as the
\* history with every token in its compact spelling.
C15_SpellingIndependent ==
    /\ last.op = "get_best_guess" =>
           last.ret = get_best_guess(guess_words, optimal_first_guess,
                                     CanonicalHistory(history), last.config).ret
    /\ last.op = "get_possible_words" =>
           last.ret = get_possible_words(answer_words, guess_words,
                                         CanonicalHistory(history)).words

\* C16: a history with a word that is not five letters long is rejected:
\* get_best_guess returns none.
C16_RejectsOtherWordLengths ==
    (last.op = "get_best_guess" /\ \E k \in DOMAIN history : Len(history[k][1]) # WordLen) =>
        last.ret = None

\* The pattern cut to five tokens, or filled up to five with Gray.
FitPattern(pattern) ==
    [i \in Positions |-> IF i <= Len(pattern) THEN pattern[i] ELSE "X"]

\* The history with every pattern fitted to five tokens.
FitPatterns(h) == [k \in DOMAIN h |-> << h[k][1], FitPattern(h[k][2]) >>]

\* C17: a pattern with more or fewer than five tokens is handled by one rule:
\* get_best_guess returns none, or the answer for the pattern cut or filled to
\* five tokens; it never panics.
C17_PatternLengthOneRule ==
    (/\ last.op = "get_best_guess"
     /\ \E k \in DOMAIN history : Len(history[k][2]) # WordLen
     /\ \A m \in DOMAIN history : Len(history[m][1]) = WordLen) =>
        \/ last.ret = None
        \/ last.ret = get_best_guess(guess_words, optimal_first_guess,
                                     FitPatterns(history), last.config).ret

RareLetterKillers ==
    { <<"P","S","Y","C","H">>, <<"G","L","Y","P","H">>, <<"V","O","M","I","T">>,
      <<"J","U","M","B","O">>, <<"Z","E","B","R","A">> }

\* C20: every candidate assembled with include_killer_words true is also
\* assembled with include_killer_words false: the extended strategic list
\* contains every killer word.
C20_ExtendedContainsKiller ==
    (last.op = "candidates_assembled" /\ last.first_config.include_killer_words) =>
        Range(last.candidates) \subseteq
            Range(strategic_candidates(last.remaining_words, FALSE))

\* C20 as amended: the candidates that the switch from true to false removes
\* are exactly the rare-letter killer words PSYCH, GLYPH, VOMIT, JUMBO, ZEBRA
\* that are not remaining words; every other killer word is in the extended
\* strategic list.
C20_ExtendedContainsKillerButRare ==
    (last.op = "candidates_assembled" /\ last.first_config.include_killer_words) =>
        /\ Range(last.candidates) \ Range(strategic_candidates(last.remaining_words, FALSE))
               = RareLetterKillers \ Range(last.remaining_words)
        /\ Range(get_killer_words) \ RareLetterKillers \subseteq Range(get_top_strategic_words)

\* A pool assembled with the killer list from which the switch removes all
\* five rare-letter words.
C20_Witness ==
    /\ last.op = "candidates_assembled"
    /\ last.first_config.include_killer_words
    /\ Cardinality(Range(last.candidates)
                   \ Range(strategic_candidates(last.remaining_words, FALSE))) = 5

\* log2(n) as the nearest f64, in the units of TermF64.
Log2F64 ==
    << <<0, 0>>, <<33554432, 0>>, <<53182516, 486402880>>, <<67108864, 0>>, <<77910978, 395982608>>, <<86736948, 486402880>>, <<94199199, 893403856>>, <<100663296, 0>> >>

\* a <= b for f64 values written as pairs.
LessEqF64(a, b) == a[1] < b[1] \/ (a[1] = b[1] /\ a[2] <= b[2])

\* The value d units above a.
OffsetF64(a, d) ==
    << a[1] + ((a[2] + d + F64Limb) \div F64Limb) - 1, (a[2] + d + F64Limb) % F64Limb >>

\* Every pattern class of the candidate over the remaining words is a singleton.
AllSingletons(candidate_word, remaining_words) ==
    Cardinality(PatternGroups(candidate_word, remaining_words)) = Len(remaining_words)

FeedbackOfGuesses(guesses, target_word, guess_results) ==
    /\ Len(guess_results) = Len(guesses)
    /\ \A k \in DOMAIN guesses :
           /\ guesses[k] # target_word
           /\ ToFfi(guess_results[k]) =
                  << guesses[k], simulate_guess_pattern(guesses[k], target_word) >>

\* C18: simulate_game starts from an empty history, calls get_best_guess at
\* most max_guesses times, passes it the history built so far, stops at the
\* first guess equal to the target and appends (guess, simulate(guess, target))
\* after every other guess; solved holds iff the last guess is the target and
\* guess_count is the number of guesses, at most max_guesses.
C18_SelfPlayLoop ==
    /\ (last.op = "simulate_game_loop" /\ last.attempt = 0) =>
           (last.guesses = <<>> /\ last.guess_results = <<>>)
    /\ last.op = "simulate_game_loop" =>
           /\ last.attempt <= last.max_guesses
           /\ FeedbackOfGuesses(last.guesses, last.target_word, last.guess_results)
           /\ Len(last.guesses) = (IF last.broke THEN last.attempt - 1 ELSE last.attempt)
           /\ last.attempt > 0 =>
                  history = [k \in 1..(last.attempt - 1) |-> ToFfi(last.guess_results[k])]
    /\ last.op = "simulate_game" =>
           /\ last.attempt <= last.max_guesses
           /\ last.guess_count = Len(last.guesses)
           /\ last.guess_count <= last.max_guesses
           /\ last.solved <=> (last.guesses # <<>>
                               /\ last.guesses[Len(last.guesses)] = last.target_word)
           /\ FeedbackOfGuesses(SubSeq(last.guesses, 1, Len(last.guess_results)),
                                last.target_word, last.guess_results)
           /\ Len(last.guess_results) =
                  (IF last.solved THEN Len(last.guesses) - 1 ELSE Len(last.guesses))

\* A game solved at its third guess, after two guesses whose feedback was
\* appended.
C18_Witness ==
    /\ last.op = "simulate_game"
    /\ last.solved
    /\ last.guess_count = 3
    /\ Len(last.guess_results) = 2

\* The thread waits for a mutex that another thread holds.
Blocked(t) ==
    \/ last.pc[t] = "start" /\ t # "set_solver_config" /\ last.word_manager # Free
    \/ last.pc[t] = "start" /\ t = "set_solver_config" /\ last.solver_config # Free
    \/ last.pc[t] \in { "candidates", "between_locks" } /\ last.solver_config # Free

\* C21: in get_best_guess WORD_MANAGER is held only while the first guess or
\* the guess words are copied out and SOLVER_CONFIG only in the two sections of
\* get_candidate_words that read the configuration; no mutex is held while the
\* words are filtered and the candidates scored; no thread holds both mutexes;
\* and while some call is unfinished some thread can take a step.
C21_LockDiscipline ==
    last.op = "threads" =>
        /\ \A t \in BestGuessThreads :
               /\ last.word_manager = t <=> last.pc[t] \in { "first_guess_locked", "words_locked" }
               /\ last.solver_config = t <=> last.pc[t] \in { "config_locked_1", "config_locked_2" }
               /\ last.pc[t] \in { "filter", "candidates", "between_locks", "score", "done" } =>
                      (last.word_manager # t /\ last.solver_config # t)
        /\ \A t \in Threads : ~ (last.word_manager = t /\ last.solver_config = t)
        /\ (\E t \in Threads : last.pc[t] # "done") =>
               (\E t \in Threads : last.pc[t] # "done" /\ ~ Blocked(t))

\* One caller scores its candidates while the other holds WORD_MANAGER and
\* set_solver_config holds SOLVER_CONFIG.
C21_Witness ==
    /\ last.op = "threads"
    /\ last.pc["best_guess_1"] = "score"
    /\ last.word_manager = "best_guess_2"
    /\ last.solver_config = "set_solver_config"

\* The remaining words of a recorded call, found by their number.
RemainingOf(n) == CHOOSE r \in RemainingInputs : Len(r) = n

\* The score of a candidate: its entropy, plus the bonus when it is one of the
\* remaining words.
PoolScore(c, remaining_words) ==
    calculate_entropy(c, remaining_words)
        + (IF Contains(remaining_words, c) THEN PrimeSuspectBonus ELSE 0)

\* The word is the first of maximal score among the first n candidates.
FirstMaximal(word, n, candidate_words, remaining_words) ==
    \E i \in 1..n :
        /\ candidate_words[i] = word
        /\ \A j \in 1..n : PoolScore(candidate_words[j], remaining_words)
                               <= PoolScore(word, remaining_words)
        /\ \A j \in 1..(i - 1) : PoolScore(candidate_words[j], remaining_words)
                                     < PoolScore(word, remaining_words)

ConfiguredScored(candidate_words, remaining_words, cfg) ==
    LET n == IF Len(candidate_words) < HardCap THEN Len(candidate_words) ELSE HardCap
        Reaches(i) == calculate_entropy(candidate_words[i], remaining_words)
                          >= cfg.early_termination_threshold
    IN  IF cfg.early_termination_enabled /\ \E i \in 1..n : Reaches(i)
        THEN CHOOSE i \in 1..n : Reaches(i) /\ \A j \in 1..(i - 1) : ~ Reaches(j)
        ELSE n

\* C23: the scoring loop stops early only when early_termination_enabled is
\* set, and then at the first candidate whose entropy is at least
\* early_termination_threshold; otherwise it scores the pool up to the
\* hundredth candidate.
C23_ConfiguredTermination ==
    (last.op = "get_intelligent_guess" /\ last.remaining > 2) =>
        LET remaining_words == RemainingOf(last.remaining)
            candidate_words == get_candidate_words(remaining_words, last.config)
        IN  last.scored = ConfiguredScored(candidate_words, remaining_words, last.config)

\* The number of positions of the word that hold the letter.
LetterCount(word, letter) == Cardinality({i \in Positions : word[i] = letter})

\* The number of positions of the guess that hold the letter and are marked
\* with one of the marks.
MarkedCount(guess, result, letter, marks) ==
    Cardinality({i \in Positions : guess[i] = letter /\ result[i] \in marks})

\* The smaller of two numbers.
Min(a, b) == IF a <= b THEN a ELSE b

\* C24: in the pattern of simulate_guess_pattern and in the feedback of
\* generate_feedback, for every letter the number of positions of the guess
\* that hold it and are marked Green or Yellow is the smaller of its number of
\* occurrences in the guess and in the target.
C24_Multiplicity ==
    last.op = "simulate_guess_pattern" =>
        \A i \in Positions :
            LET letter == last.guess[i]
                expected == Min(LetterCount(last.guess, letter),
                                LetterCount(last.target, letter))
            IN  /\ MarkedCount(last.guess, last.pattern, letter, {"G", "Y"}) = expected
                /\ MarkedCount(last.guess, last.feedback, letter, {"Green", "Yellow"})
                       = expected

\* A simulated guess that repeats a letter the target holds fewer times, so
\* that one occurrence is marked and another is not.
C24_Witness ==
    /\ last.op = "simulate_guess_pattern"
    /\ \E i \in Positions :
           /\ LetterCount(last.target, last.guess[i]) >= 1
           /\ LetterCount(last.guess, last.guess[i])
                  > LetterCount(last.target, last.guess[i])
           /\ last.pattern[i] = "X"

\* C25: both definitions of word_matches_single_feedback of api/simple.rs
\* accept a candidate for a record exactly when the benchmark's
\* word_matches_single_feedback accepts it.
C25_SameAsBenchmark ==
    last.op = "word_matches" =>
        /\ last.first = last.benchmark
        /\ last.second = last.benchmark

\* C26 as stated: for every remaining words and history the reference entry
\* point returns what the production entry point returns.
C26_ReferenceSameAsFast ==
    last.op = "get_intelligent_guess_reference" => last.ret = last.fast

\* C26: with at most two remaining words the reference entry point returns
\* what the production entry point returns, for every history.
C26_ReferenceSameAsFastEndgame ==
    (last.op = "get_intelligent_guess_reference" /\ Len(last.remaining_words) <= 2) =>
        last.ret = last.fast

\* Both entry points were called with two remaining words and answered the
\* first of them.
C26_Witness ==
    /\ last.op = "get_intelligent_guess_reference"
    /\ Len(last.remaining_words) = 2
    /\ last.ret = last.remaining_words[1]
    /\ last.fast = last.remaining_words[1]

\* The positions of the pattern that carry the mark.
MarkedPositions(pattern, mark) == {i \in Positions : pattern[i] = mark}

\* C27 as stated: the pattern of a guess against a target is the pattern of
\* the target guessed against the guess.
C27_Symmetric ==
    last.op = "simulate_guess_pattern" =>
        last.pattern = simulate_guess_pattern(last.target, last.guess)

\* C27: the pattern of a guess against a target and the pattern of the target
\* guessed against the guess are Green at the same positions and have the
\* same number of Yellow marks.
C27_SymmetricUpToYellowPlaces ==
    last.op = "simulate_guess_pattern" =>
        LET reverse == simulate_guess_pattern(last.target, last.guess)
        IN  /\ MarkedPositions(last.pattern, "G") = MarkedPositions(reverse, "G")
            /\ Cardinality(MarkedPositions(last.pattern, "Y"))
                   = Cardinality(MarkedPositions(reverse, "Y"))

\* Two words whose patterns against each other share a Green position and put
\* their Yellow marks at different positions.
C27_Witness ==
    /\ last.op = "simulate_guess_pattern"
    /\ MarkedPositions(last.pattern, "G") # {}
    /\ MarkedPositions(last.pattern, "Y") # {}
    /\ MarkedPositions(last.pattern, "Y")
           # MarkedPositions(simulate_guess_pattern(last.target, last.guess), "Y")

\* The history holds only records the harness builds for the target: each
\* is a guess of five letters with generate_feedback of the guess against the
\* target, in the tokens of the external interface.
BuiltForTarget(guess_results, target) ==
    \A k \in DOMAIN guess_results :
        /\ Len(guess_results[k][1]) = WordLen
        /\ guess_results[k] = ToFfi(generate_feedback(guess_results[k][1], target))

\* C28: for every target among the guess words and every history that is not
\* empty and holds only records the harness builds for that target, the
\* target passes the filter of get_best_guess and get_best_guess does not
\* answer none.
C28_TargetNeverEliminated ==
    (last.op = "get_best_guess" /\ history # <<>>) =>
        \A t \in Range(guess_words) :
            BuiltForTarget(history, t) =>
                /\ Contains(last.eligible_words, t)
                /\ last.ret # None

\* The words of the lexicon that pass the filter on the first k records.
PlayFiltered(guess_results, k) ==
    Range(filter_words_with_feedback(PlayLexicon, SubSeq(guess_results, 1, k)))

\* C29: in self-play on a target of the guess words every wrong guess leaves
\* a strictly smaller filtered set that does not hold the guess, no word is
\* guessed twice, and the game is not given up: it ends solved or after
\* max_guesses guesses.
C29_WrongGuessProgress ==
    last.op \in {"simulate_game_loop", "simulate_game"} =>
        /\ \A k \in 1..Len(last.guess_results) :
               /\ PlayFiltered(last.guess_results, k)
                      \subseteq PlayFiltered(last.guess_results, k - 1)
               /\ PlayFiltered(last.guess_results, k)
                      # PlayFiltered(last.guess_results, k - 1)
               /\ last.guess_results[k].word \notin PlayFiltered(last.guess_results, k)
        /\ \A i, j \in 1..Len(last.guesses) :
               last.guesses[i] = last.guesses[j] => i = j
        /\ ~ last.broke

\* The history without its last record.
Front(guess_results) == SubSeq(guess_results, 1, Len(guess_results) - 1)

\* C30: with the answer words among the guess words, the words get_possible_words
\* returns for a history with one more record are among the words it returns
\* for the history without that record, the empty history included.
C30_PossibleWordsShrink ==
    (last.op = "get_possible_words" /\ history # <<>> /\ ~ last.panic
        /\ Range(answer_words) \subseteq Range(guess_words)) =>
        LET before == get_possible_words(answer_words, guess_words, Front(history))
        IN  ~ before.panic => Range(last.ret) \subseteq Range(before.words)

====
